---- MODULE Spec2Model ----
(***************************************************************************)
(* A model of perfarce.py, the Mercurial extension that pulls from and     *)
(* pushes to a Perforce depot.                                             *)
(*                                                                         *)
(* The local repository is a sequence of revisions; a revision's identity  *)
(* (its node, and the hex form written into descriptions and into the      *)
(* p4stat file) is its position in that sequence, 0 standing for nullid.   *)
(* The depot is a sequence of changelists; a changelist's number is its    *)
(* position.  One command of the extension runs at a time (pc says where   *)
(* it is); between commands the user commits local revisions and other     *)
(* depot users submit changelists.                                         *)
(***************************************************************************)
EXTENDS Integers, Sequences, FiniteSets, TLC

\* ------------------------------------------------------------- bounds
\* Local (hg commit) revisions the user creates.
MaxLocal == 2
\* Changelists the depot hands out while the extension is in use.
MaxChange == 3
\* Changelists of the depot a clone starts from.
CloneMaxChange == 10
\* Labels attached to depot changelists.
MaxLabels == 1
\* File contents are 1..MaxContent; 0 is "no such file".
MaxContent == 2

\* ---------------------------------------------------------- constants
\* The length of n.hex(), the key of a p4stat entry
HexLen == 40
\* p4client.SUBMITTED
SUBMITTED == -1
\* Python's None as a p4stat state and as "no changelist"
None == 0
\* mercurial.node.nullid, and "no parent"
nullid == 0

\* Revision identities a p4stat entry can be keyed by.
MaxNode ==
    LET a == MaxLocal + MaxChange
        b == MaxChange + 3
        c == CloneMaxChange + MaxLabels
        m == IF a >= b THEN a ELSE b
    IN  1 + (IF m >= c THEN m ELSE c)
NodeIds == 1..MaxNode

\* The tracked paths: one in the depot view, one in the '.hg*' namespace.
Paths == {"a", ".hgtags"}
\* The paths of a changeset that is opened in a changelist.
OpenPaths == {"a", "b", ".hgignore"}
\* f.startswith('.hg')
StartsWithHg(f) == f \in {".hgtags", ".hgignore"}

VARIABLES
    created,        \* the local repository exists (hg clone / hg init done)
    repo,           \* the changelog: sequence of revisions
    depot,          \* the depot's changelists, by number
    labels,         \* changelist numbers that carry a p4 label
    p4statfile,     \* contents of .hg/p4stat: node -> state (None: no line)
    p4stat,         \* client.p4stat of the running command
    p4statloaded,   \* client.p4stat is not None
    p4statdirty,    \* client.p4statdirty
    pc,             \* where the running command is; "idle" between commands
    opts,           \* the running command's options
    changes,        \* pull: the changelists still to import
    p4rev,          \* pull: the import anchor (node)
    p4id,           \* pull / push: the anchor's changelist number
    startrev,       \* pull: --startrev still to be folded (0: none)
    tags,           \* pull: labels collected, by changelist
    failed,         \* pull: the import loop raised
    cand,           \* push: the candidate range before trimming
    nodes,          \* push: the range after trimming
    ctx1,           \* push: node the diff starts from
    ctx2,           \* push: node the diff ends at
    desc,           \* push: the changelist description
    use,            \* push: the changelist number in use
    res             \* outcome of the last command (exit status and ui output)

store == <<p4statfile, p4stat, p4statloaded, p4statdirty>>
pullvars == <<changes, p4rev, startrev, tags, failed>>
pushvars == <<cand, nodes, ctx1, ctx2, desc, use>>
cmdvars == <<created, repo, depot, labels, store, pc, opts, pullvars, p4id, pushvars, res>>

VARIABLES
    MAXARGS,        \* client.MAXARGS
    view,           \* the client view: depot path -> what the depot answers
    wherecache,     \* client.wherecache
    wpc,            \* where: "idle", "run" (inside the for loop), "done"
    wfiles,         \* where: the depot paths asked for
    flist,          \* where: the sorted paths not in the cache
    batches,        \* run: offsets into flist of the commands still to run
    replies,        \* run: dictionaries of the running command not yet read
    wn,             \* where: n, the replies counted
    result,         \* where: result, a list of (depot path, local path)
    queries,        \* commands run by this call of where
    wres            \* where: "none", "ok" or the abort raised

wherevars == <<MAXARGS, view, wherecache, wpc, wfiles, flist, batches, replies,
               wn, result, queries, wres>>

VARIABLES
    p4statlines,    \* the text of .hg/p4stat
    clients,        \* of each command: p4stat, p4statdirty, p4stat is not None
    cstate,         \* of each command: "none", "open", "closed"
    written,        \* of each command: the times it wrote .hg/p4stat
    altered         \* of each command: a setpending altered self.p4stat

storevars == <<p4statlines, clients, cstate, written, altered>>

VARIABLES
    racefile,       \* the bytes of .hg/p4stat, line by line
    racers,         \* of each command: p4stat, p4statdirty, p4stat is not None
    rpc,            \* of each command: "run", "writing", "closed"
    rbase,          \* of each command: p4stat as _readp4stat left it
    rlast           \* the command whose close() ended last, 0 before

racevars == <<racefile, racers, rpc, rbase, rlast>>

VARIABLES
    wctx,           \* push: the manifests of ctx1 and ctx2 and the copies found
    opc,            \* push: the step of opening the files that comes next
    exp,            \* push: mod, add, rem, cpy and ntg
    p4log           \* push: the p4 commands run and the files written, in order

openvars == <<wctx, opc, exp, p4log>>

svcvars == <<wherevars, storevars, racevars, openvars>>
vars == <<cmdvars, svcvars>>

\* ------------------------------------------------------------ helpers
RECURSIVE SortedSeq(_)
SortedSeq(S) ==
    IF S = {} THEN <<>>
    ELSE LET m == CHOOSE x \in S : \A y \in S : x <= y
         IN <<m>> \o SortedSeq(S \ {m})

Range(s) == {s[i] : i \in DOMAIN s}

Last(s) == s[Len(s)]

EmptyManifest == [f \in Paths |-> 0]

EmptyStat == [n \in NodeIds |-> None]

\* A description: the messages of the revisions it was joined from (a local
\* revision's message is named by its node) and the {{mercurial ...}} tag at
\* its end, as the one or two hex identities it holds (<<>>: no tag); intext
\* are the tags that stand inside the messages, in their order.
NoDesc == [msgs |-> <<>>, hgid |-> <<>>, intext |-> <<>>]

\* Every {{mercurial ...}} of a description, in the order of the text.
Markers(d) == d.intext \o (IF d.hgid = <<>> THEN <<>> ELSE <<d.hgid>>)

\* What re_hgid.search finds: the first tag of the text (<<>>: no match).
FirstMarker(d) == IF Markers(d) = <<>> THEN <<>> ELSE Head(Markers(d))

NoOpts == [op |-> "none", rev |-> <<>>, force |-> FALSE, submit |-> FALSE,
           startrev |-> 0, change |-> 0, all |-> FALSE]

\* What a command ends with: how it went, and the revision an abort names.
NoRes == [outcome |-> "none", node |-> 0]

Result(out, n) == [outcome |-> out, node |-> n]

\* A revision.  p4 is extra['p4'] (0: no such key); tagdesc says that the
\* description starts with 'p4 tags\n'; man is the manifest; cl is the
\* changelist the import loop was processing when it committed the revision
\* (0 for any other revision).
Rev(q1, q2, p4extra, td, m, c) ==
    [p1 |-> q1, p2 |-> q2, p4 |-> p4extra, tagdesc |-> td, man |-> m, cl |-> c,
     inmsg |-> <<>>]

\* A changelist.  fa is the content of path "a" it leaves (-1: it does not
\* touch the path, 0: it deletes it).
Change(st, d, content) == [status |-> st, desc |-> d, fa |-> content]

ManifestOf(rp, n) == IF n = nullid THEN EmptyManifest ELSE rp[n].man

NextContent(x) == (x + 1) % (MaxContent + 1)

Bump(x) == IF x >= MaxContent THEN 1 ELSE x + 1

\* ------------------------------------------------- changelog queries
\* The ancestors of n, n included.
RECURSIVE Anc(_, _)
Anc(rp, n) ==
    IF n = nullid THEN {}
    ELSE {n} \cup Anc(rp, rp[n].p1) \cup Anc(rp, rp[n].p2)

\* ctx.children(), in revision order
Children(rp, n) == {m \in 1..Len(rp) : rp[m].p1 = n \/ rp[m].p2 = n}

\* repo.changelog.nodesbetween([root], [head])[0]: the revisions that descend
\* from root and are ancestors of head, both included, in revision order;
\* every ancestor of head when root is nullid; nothing when head does not
\* descend from root.
NodesBetween(rp, root, head) ==
    SortedSeq({n \in Anc(rp, head) : root = nullid \/ root \in Anc(rp, n)})

\* p4client.latest: the most recent revision with extra['p4'], or with
\* tags=True its first child that is a 'p4 tags' revision holding .hgtags.
Latest(rp, withtags) ==
    LET p4revs == {i \in 1..Len(rp) : rp[i].p4 # 0}
    IN  IF p4revs = {} THEN [ok |-> FALSE, node |-> nullid, p4 |-> 0]
        ELSE LET r == CHOOSE i \in p4revs : \A j \in p4revs : j <= i
                 kids == {k \in Children(rp, r) :
                            rp[k].tagdesc /\ rp[k].man[".hgtags"] # 0}
             IN  IF withtags /\ kids # {}
                 THEN [ok |-> TRUE, p4 |-> rp[r].p4,
                       node |-> CHOOSE k \in kids : \A j \in kids : k <= j]
                 ELSE [ok |-> TRUE, node |-> r, p4 |-> rp[r].p4]

\* parsenodes were it to take the tag's first revision as it stands.
ParseNodesUnchecked(rp, d) ==
    IF FirstMarker(d) = <<>> THEN <<>> ELSE <<FirstMarker(d)[1]>>

\* p4client.parsenodes: the range the description's tag names, [] when there
\* is no tag or a revision it names is not in the repository.
ParseNodes(rp, d) ==
    IF FirstMarker(d) = <<>> THEN <<>>
    ELSE LET first == FirstMarker(d)[1]
             last == Last(FirstMarker(d))
         IN  IF first \in 1..Len(rp) /\ last \in 1..Len(rp)
             THEN NodesBetween(rp, first, last)
             ELSE <<>>

\* ------------------------------------------------------- p4stat store
\* p4client._readp4stat, on a readable file
ReadP4Stat(file) == [stat |-> file, dirty |-> FALSE, loaded |-> TRUE]

\* The client's store as one value.
Client(stat, dirty, loaded) == [stat |-> stat, dirty |-> dirty, loaded |-> loaded]

\* p4client.getpendingdict (and the lazy load in getpending)
Load(cl, file) == IF cl.loaded THEN cl ELSE ReadP4Stat(file)

\* p4client.getpending
GetPending(cl, file, n) == Load(cl, file).stat[n]

SetPendingAlwaysDirty(cl, file, n, state) ==
    [Load(cl, file) EXCEPT !.stat[n] = state, !.dirty = TRUE]
\* p4client.setpending
SetPending(cl, file, n, state) ==
    LET c == Load(cl, file)
    IN  IF c.stat[n] # state
        THEN [c EXCEPT !.stat[n] = state, !.dirty = TRUE]
        ELSE c

\* setpending for every node of ns, in order
RECURSIVE SetPendingAll(_, _, _, _)
SetPendingAll(cl, file, ns, state) ==
    IF ns = <<>> THEN cl
    ELSE SetPendingAll(SetPending(cl, file, Head(ns), state), file, Tail(ns), state)

\* p4client.close and _writep4stat: the file after the command's close()
CloseFile(cl, file) == IF cl.dirty THEN cl.stat ELSE file

\* ------------------------------------------------------------- depot
\* 'p4 files ...@c': the content of path "a" as of changelist c
ContentAt(dp, c) ==
    LET touching == {k \in 1..Len(dp) :
                        k <= c /\ dp[k].status = "submitted" /\ dp[k].fa # -1}
    IN  IF touching = {} THEN 0
        ELSE dp[CHOOSE k \in touching : \A j \in touching : j <= k].fa

\* ------------------------------------------------------ command ends
\* A new p4client: nothing read yet.
FreshClient ==
    /\ p4stat' = EmptyStat /\ p4statloaded' = FALSE /\ p4statdirty' = FALSE

SetClient(cl) ==
    /\ p4stat' = cl.stat /\ p4statloaded' = cl.loaded /\ p4statdirty' = cl.dirty

NoPull ==
    /\ changes' = <<>> /\ p4rev' = nullid /\ startrev' = 0
    /\ tags' = {} /\ failed' = FALSE

NoPush ==
    /\ cand' = <<>> /\ nodes' = <<>> /\ ctx1' = nullid /\ ctx2' = nullid
    /\ desc' = NoDesc /\ use' = 0

\* The command has returned and its output has been read.
Return ==
    /\ pc = "done"
    /\ pc' = "idle"
    /\ opts' = NoOpts /\ res' = NoRes /\ p4id' = 0
    /\ NoPull /\ NoPush /\ FreshClient
    /\ UNCHANGED <<created, repo, depot, labels, p4statfile>>
    /\ UNCHANGED svcvars

\* ------------------------------------------------------------- pull
\* The --startrev handling were it to keep only the changes after startrev.
StartrevChangesAfter(chs, sr) ==
    IF sr < 0
    THEN IF Len(chs) <= -sr THEN chs ELSE SubSeq(chs, Len(chs) + sr + 1, Len(chs))
    ELSE SelectSeq(chs, LAMBDA c : c > sr)

\* pull's --startrev handling of the list of changes
StartrevChanges(chs, sr) ==
    IF sr < 0
    THEN IF Len(chs) <= -sr THEN chs ELSE SubSeq(chs, Len(chs) + sr + 1, Len(chs))
    ELSE SelectSeq(chs, LAMBDA c : c >= sr)

\* The list of changes were pullcommon to keep p4id itself in it.
ChangesFrom(dp, id) ==
    SortedSeq({c \in 1..Len(dp) : dp[c].status = "submitted" /\ c >= id})

\* 'p4 changes -s submitted ...@p4id,#head' without p4id itself, sorted
ChangesAfter(dp, id) ==
    SortedSeq({c \in 1..Len(dp) : dp[c].status = "submitted" /\ c >= id /\ c # id})

\* p4client.pullcommon and the head of pull, up to the import loop.
PullBegin(o) ==
    LET l == Latest(repo, TRUE)
        anchor == IF Len(repo) > 0 THEN l.node ELSE nullid
        id == IF Len(repo) > 0 THEN l.p4 ELSE 0
        all == ChangesAfter(depot, id)
        chs == IF o.startrev # 0 THEN StartrevChanges(all, o.startrev) ELSE all
        sr == IF o.startrev < 0 /\ chs # <<>> THEN chs[1] ELSE o.startrev
        bad == \/ Len(repo) > 0 /\ ~l.ok
               \/ o.startrev # 0 /\ (chs = <<>> \/ chs[1] # sr \/ Len(chs) < 2)
    IN  /\ opts' = o
        /\ FreshClient
        /\ NoPush
        /\ IF bad
           THEN /\ pc' = "done"
                /\ res' = Result("abort", 0)
                /\ p4id' = 0
                /\ NoPull
           ELSE /\ pc' = "pull"
                /\ res' = NoRes
                /\ changes' = chs /\ p4rev' = anchor /\ p4id' = id
                /\ startrev' = sr /\ tags' = {} /\ failed' = FALSE
        /\ UNCHANGED <<repo, depot, labels, p4statfile>>

\* hg pull p4://..., also as the re-run of a pull or clone that has ended
Pull ==
    /\ created
    /\ \/ pc = "idle"
       \/ pc = "done" /\ opts.op \in {"pull", "clone"}
    /\ PullBegin([NoOpts EXCEPT !.op = "pull"])
    /\ UNCHANGED created
    /\ UNCHANGED svcvars

\* hg clone [--startrev sr] p4://...
Clone(sr) ==
    /\ ~created
    /\ pc = "idle"
    /\ created' = TRUE
    /\ PullBegin([NoOpts EXCEPT !.op = "clone", !.startrev = sr])
    /\ UNCHANGED svcvars

\* The revision pull commits for changelist c on anchor a: parents (a, last
\* node of the description's range), extra['p4'] unless c is being folded.
ImportCtx(rp, dp, a, c, sr) ==
    LET nds == ParseNodes(rp, dp[c].desc)
        parent == IF nds # <<>> THEN Last(nds) ELSE nullid
        content == IF sr # 0 THEN ContentAt(dp, sr)
                   ELSE IF dp[c].fa = -1 THEN ManifestOf(rp, a)["a"]
                   ELSE dp[c].fa
    IN  [Rev(a, parent, IF sr # 0 THEN 0 ELSE c, FALSE,
             [ManifestOf(rp, a) EXCEPT !["a"] = content], c)
            EXCEPT !.inmsg = Markers(dp[c].desc)]

\* One pass of pull's import loop, for the first of the remaining changes.
\* how is where it raises: "describe" (describe, where or sync), "commit"
\* (reading file data inside commitctx), "labels", or "ok" for a full pass.
PullStep(how) ==
    LET c == Head(changes)
        nds == ParseNodes(repo, depot[c].desc)
        cl0 == Client(p4stat, p4statdirty, p4statloaded)
        cl1 == IF nds # <<>> THEN SetPendingAll(cl0, p4statfile, nds, None) ELSE cl0
    IN  /\ pc = "pull"
        /\ changes # <<>>
        /\ IF how = "describe"
           THEN /\ failed' = TRUE /\ pc' = "pullfin"
                /\ UNCHANGED <<repo, p4stat, p4statloaded, p4statdirty,
                               changes, p4rev, startrev, tags>>
           ELSE /\ SetClient(cl1)
                /\ startrev' = 0
                /\ IF how = "commit"
                   THEN /\ failed' = TRUE /\ pc' = "pullfin"
                        /\ UNCHANGED <<repo, changes, p4rev, tags>>
                   ELSE /\ repo' = Append(repo, ImportCtx(repo, depot, p4rev, c, startrev))
                        /\ p4rev' = Len(repo) + 1
                        /\ IF how = "labels"
                           THEN /\ failed' = TRUE /\ pc' = "pullfin"
                                /\ UNCHANGED <<changes, tags>>
                           ELSE /\ tags' = IF c \in labels THEN tags \cup {c} ELSE tags
                                /\ changes' = Tail(changes)
                                /\ failed' = FALSE
                                /\ pc' = "pull"
        /\ UNCHANGED <<created, depot, labels, p4statfile, opts, p4id, pushvars, res>>
    /\ UNCHANGED svcvars

\* The 'p4 tags' revision were it to leave .hgtags as it is.
TagCtxNoFile(rp, n) == Rev(n, nullid, 0, TRUE, ManifestOf(rp, n), 0)

\* The 'p4 tags' revision on node n.
TagCtx(rp, n) ==
    Rev(n, nullid, 0, TRUE,
        [ManifestOf(rp, n) EXCEPT ![".hgtags"] = Bump(ManifestOf(rp, n)[".hgtags"])], 0)

\* pull's finally block: the 'p4 tags' revision when labels were collected,
\* then client.close().  latest() raising inside the block, or the commit of
\* the 'p4 tags' revision raising (how = "commit"), skips the close.
PullFinally(how) ==
    LET l == Latest(repo, FALSE)
        cl0 == Client(p4stat, p4statdirty, p4statloaded)
    IN  /\ \/ pc = "pullfin"
           \/ pc = "pull" /\ changes = <<>>
        /\ how = "commit" => tags # {} /\ l.ok
        /\ pc' = "done"
        /\ IF tags # {} /\ (~l.ok \/ how = "commit")
           THEN /\ res' = Result("failed", 0)
                /\ UNCHANGED <<repo, p4statfile, p4statdirty>>
           ELSE /\ repo' = IF tags # {} THEN Append(repo, TagCtx(repo, l.node)) ELSE repo
                /\ p4statfile' = CloseFile(cl0, p4statfile)
                /\ p4statdirty' = FALSE
                /\ res' = Result(IF failed THEN "failed" ELSE "ok", 0)
        /\ UNCHANGED <<created, depot, labels, p4stat, p4statloaded, opts, pullvars,
                       p4id, pushvars>>
    /\ UNCHANGED svcvars

\* ------------------------------------------------------------- push
\* The trimming loops of pushcommon: drop already-pushed nodes at one end.
RECURSIVE TrimFront(_, _)
TrimFront(ns, stat) ==
    IF ns # <<>> /\ stat[Head(ns)] # None
    THEN TrimFront(Tail(ns), stat)
    ELSE ns

RECURSIVE TrimBack(_, _)
TrimBack(ns, stat) ==
    IF ns # <<>> /\ stat[Last(ns)] # None
    THEN TrimBack(SubSeq(ns, 1, Len(ns) - 1), stat)
    ELSE ns

\* The trimming were it to work on the start of the range only.
TrimFrontOnly(ns, stat) == TrimFront(ns, stat)

\* The range were it left untrimmed.
TrimNothing(ns, stat) == ns

\* for end in [0, -1]: while nodes: ...
Trim(ns, stat) == TrimBack(TrimFront(ns, stat), stat)

\* The check of one remaining node were it to look at p4stat only.
AlreadyInP4StatOnly(rp, stat, n) == stat[n] # None

\* pushcommon's check of one remaining node: it is in p4stat, or a child of
\* it carries extra['p4'].
AlreadyInP4(rp, stat, n) ==
    \/ stat[n] # None
    \/ \E k \in Children(rp, n) : rp[k].p4 # 0

\* repo.status(node1, node2)[:3]
Status(m1, m2) ==
    [mod |-> {f \in Paths : m1[f] # 0 /\ m2[f] # 0 /\ m1[f] # m2[f]},
     add |-> {f \in Paths : m1[f] = 0 /\ m2[f] # 0},
     rem |-> {f \in Paths : m1[f] # 0 /\ m2[f] = 0}]

RemoveHgNothing(files) == files

\* remove .hg* files
RemoveHg(files) == {f \in files : ~StartsWithHg(f)}

\* mod + add + rem of pushcommon: nothing for an empty range, else the
\* difference between the two contexts without the .hg* files.
ChangedFiles(rp, ns, d1, d2) ==
    LET st == Status(ManifestOf(rp, d1), ManifestOf(rp, d2))
    IN  IF ns = <<>> THEN {}
        ELSE RemoveHg(st.mod) \cup RemoveHg(st.add) \cup RemoveHg(st.rem)

\* The description of a range: the messages, then the {{mercurial ...}} tag.
RECURSIVE InMessages(_, _)
InMessages(rp, ns) ==
    IF ns = <<>> THEN <<>> ELSE rp[Head(ns)].inmsg \o InMessages(rp, Tail(ns))

Describe(rp, ns) ==
    [msgs |-> ns,
     hgid |-> IF Len(ns) > 1 THEN <<ns[1], Last(ns)>> ELSE <<Last(ns)>>,
     intext |-> InMessages(rp, ns)]

\* p4client.pushcommon as a function of the repository, the p4stat file and
\* the options: what it returns or raises.
PushCommon(rp, file, o) ==
    LET l == Latest(rp, TRUE)
        c2 == IF o.rev = <<>> THEN Len(rp) ELSE Last(o.rev)
        c1 == IF o.rev = <<>> THEN l.node ELSE rp[o.rev[1]].p1
        nb == NodesBetween(rp, c1, c2)
        between == IF nb = <<>> THEN <<>> ELSE Tail(nb)
        ns == IF o.force THEN between ELSE Trim(between, file)
        trim == ~o.force /\ ns # between
        d1 == IF trim /\ ns # <<>> THEN rp[ns[1]].p1 ELSE c1
        d2 == IF trim /\ ns # <<>> THEN Last(ns) ELSE c2
        bad == {i \in DOMAIN ns : AlreadyInP4(rp, file, ns[i])}
        changed == ChangedFiles(rp, ns, d1, d2)
        base == [outcome |-> "ready", node |-> 0, cand |-> between, nodes |-> ns,
                 ctx1 |-> d1, ctx2 |-> d2, desc |-> NoDesc, p4id |-> l.p4]
    IN  IF ~l.ok
        THEN [base EXCEPT !.outcome = "abort", !.cand = <<>>, !.nodes = <<>>,
                          !.ctx1 = nullid, !.ctx2 = nullid]
        ELSE IF ~o.force /\ bad # {}
        THEN [base EXCEPT !.outcome = "abort",
                          !.node = ns[CHOOSE i \in bad : \A j \in bad : i <= j]]
        ELSE IF changed = {}
        THEN [base EXCEPT !.outcome = "nochanges"]
        ELSE [base EXCEPT !.desc = Describe(rp, ns)]

\* hg push [-r rev] [--force] p4://...: the call of pushcommon.  Also as the
\* repetition, without --force, of the push that has just ended.
Push(rev, force) ==
    LET o == [NoOpts EXCEPT !.op = "push", !.rev = rev, !.force = force]
        r == PushCommon(repo, p4statfile, o)
        loaded == ~force /\ r.cand # <<>>
    IN  /\ created
        /\ \/ pc = "idle"
           \/ pc = "done" /\ opts.op = "push" /\ opts.rev = rev /\ ~force
        /\ \A i \in DOMAIN rev : rev[i] \in 1..Len(repo)
        /\ Len(rev) = 2 => rev[1] < rev[2]
        /\ opts' = o
        /\ cand' = r.cand /\ nodes' = r.nodes
        /\ ctx1' = r.ctx1 /\ ctx2' = r.ctx2
        /\ desc' = r.desc /\ use' = 0
        /\ p4id' = r.p4id
        /\ p4statloaded' = loaded
        /\ p4stat' = IF loaded THEN p4statfile ELSE EmptyStat
        /\ p4statdirty' = FALSE
        /\ IF r.outcome = "ready"
           THEN pc' = "push" /\ res' = NoRes
           ELSE pc' = "done" /\ res' = Result(r.outcome, r.node)
        /\ UNCHANGED <<created, repo, depot, labels, p4statfile, pullvars>>
    /\ UNCHANGED svcvars

ReusableNone(dp, d) == {}

\* The open changelists of this client whose description equals d.
Reusable(dp, d) == {c \in 1..Len(dp) : dp[c].status = "pending" /\ dp[c].desc = d}

\* The changelist push works in: the one it reuses, else the next number.
UseChange(dp, d) ==
    IF Reusable(dp, d) # {}
    THEN CHOOSE c \in Reusable(dp, d) : \A k \in Reusable(dp, d) : c <= k
    ELSE Len(dp) + 1

\* push between pushcommon and the submit: reuse or create the changelist,
\* then open the files in it.  how is where the depot answers with an error:
\* "change" (before the changelist exists), "open" (opening files), or "ok".
PushDepot(how) ==
    LET reuse == Reusable(depot, desc) # {}
        n == UseChange(depot, desc)
        dp1 == IF reuse THEN depot ELSE Append(depot, Change("pending", desc, -1))
        dp2 == [dp1 EXCEPT ![n].fa = ManifestOf(repo, ctx2)["a"]]
    IN  /\ pc = "push"
        /\ how # "change" => reuse \/ Len(depot) < MaxChange
        /\ IF how = "change"
           THEN /\ pc' = "done" /\ res' = Result("abort", 0)
                /\ UNCHANGED <<depot, use>>
           ELSE IF how = "open"
           THEN /\ pc' = "done" /\ res' = Result("abort", 0)
                /\ depot' = dp1
                /\ use' = n
           ELSE /\ pc' = "pushfin" /\ res' = NoRes
                /\ depot' = dp2
                /\ use' = n
        /\ UNCHANGED <<created, repo, labels, store, opts, pullvars, p4id,
                       cand, nodes, ctx1, ctx2, desc>>
    /\ UNCHANGED svcvars

\* 'p4 submit -c c' accepted by the depot: the changelist becomes submitted,
\* under a new number when later numbers were handed out meanwhile.
DepotSubmitted(dp, c) ==
    IF c = Len(dp)
    THEN [dp EXCEPT ![c].status = "submitted"]
    ELSE Append([dp EXCEPT ![c].status = "deleted"],
                [dp[c] EXCEPT !.status = "submitted"])

\* The depot can take 'p4 submit -c c'.
CanSubmit(dp, c) ==
    /\ c \in 1..Len(dp)
    /\ dp[c].status = "pending"
    /\ (c = Len(dp) \/ Len(dp) < MaxChange)

\* p4client.submit were it to mark the nodes before looking for the depot's
\* error record.
SubmitMarksFirst(cl, file, ns, answer) ==
    [ok |-> answer # "error", client |-> SetPendingAll(cl, file, ns, SUBMITTED)]

\* p4client.submit: abort on the depot's error record, else mark the nodes.
Submit(cl, file, ns, answer) ==
    IF answer = "error"
    THEN [ok |-> FALSE, client |-> cl]
    ELSE [ok |-> TRUE, client |-> SetPendingAll(cl, file, ns, SUBMITTED)]

\* The marking loop were it to start at the second node.
PendingMarksSkipFirst(cl, file, ns, n) == SetPendingAll(cl, file, Tail(ns), n)

\* for n in nodes: client.setpending(repo[n].hex(), int(use))
PendingMarks(cl, file, ns, n) == SetPendingAll(cl, file, ns, n)

\* The end of push: with --submit (or perfarce.submit) submit the changelist,
\* else mark the nodes pending; then close.  how is the depot's answer to the
\* submit: "ok" or "error".
PushFinish(submit, how) ==
    LET cl0 == Client(p4stat, p4statdirty, p4statloaded)
        sub == Submit(cl0, p4statfile, nodes, how)
        cl1 == IF submit THEN sub.client
               ELSE PendingMarks(cl0, p4statfile, nodes, use)
    IN  /\ pc = "pushfin"
        /\ how = "ok" /\ submit => CanSubmit(depot, use)
        /\ how = "error" => submit
        /\ pc' = "done"
        /\ opts' = [opts EXCEPT !.submit = submit]
        /\ IF submit /\ ~sub.ok
           THEN /\ res' = Result("abort", 0)
                /\ SetClient(cl1)
                /\ UNCHANGED <<depot, p4statfile>>
           ELSE /\ depot' = IF submit THEN DepotSubmitted(depot, use) ELSE depot
                /\ p4statfile' = CloseFile(cl1, p4statfile)
                /\ SetClient([cl1 EXCEPT !.dirty = FALSE])
                /\ res' = Result(IF submit THEN "submitted" ELSE "pending", 0)
        /\ UNCHANGED <<created, repo, labels, pullvars, p4id, pushvars>>
    /\ UNCHANGED svcvars

\* ---------------------------------------------------------- p4submit
\* submit's loop over the changelists chs, each accepted by the depot:
\* describe, parsenodes, client.submit.
RECURSIVE SubmitRun(_, _, _, _, _)
SubmitRun(rp, dp, cl, file, chs) ==
    IF chs = <<>> THEN [depot |-> dp, client |-> cl]
    ELSE LET c == Head(chs)
             ns == ParseNodes(rp, dp[c].desc)
         IN  SubmitRun(rp, DepotSubmitted(dp, c),
                       Submit(cl, file, ns, "ok").client, file, Tail(chs))

\* Every changelist of chs can be submitted, one after the other.
RECURSIVE CanSubmitAll(_, _)
CanSubmitAll(dp, chs) ==
    IF chs = <<>> THEN TRUE
    ELSE /\ CanSubmit(dp, Head(chs))
         /\ CanSubmitAll(DepotSubmitted(dp, Head(chs)), Tail(chs))

\* The changelists 'hg p4submit --all' works on.
PendingChanges(stat) == SortedSeq({stat[n] : n \in NodeIds} \ {None, SUBMITTED})

\* hg p4submit change | hg p4submit --all.  The first k changelists are
\* submitted; with k short of the list the depot refuses the next one (or
\* cannot describe it) and the command aborts there, without close().
P4Submit(change, all, k) ==
    LET o == [NoOpts EXCEPT !.op = "p4submit", !.change = change, !.all = all]
        cl0 == Client(EmptyStat, FALSE, FALSE)
        cl1 == IF change # 0 THEN cl0 ELSE Load(cl0, p4statfile)
        chs == IF change # 0 THEN <<change>> ELSE PendingChanges(p4statfile)
        done == SubSeq(chs, 1, k)
        run == SubmitRun(repo, depot, cl1, p4statfile, done)
        stopped == IF k < Len(chs) /\ chs[k + 1] \in 1..Len(run.depot)
                   THEN Submit(run.client, p4statfile,
                               ParseNodes(repo, run.depot[chs[k + 1]].desc), "error").client
                   ELSE run.client
    IN  /\ created
        /\ pc = "idle"
        /\ change # 0 \/ all
        /\ k \in 0..Len(chs)
        /\ CanSubmitAll(depot, done)
        /\ pc' = "done"
        /\ opts' = o
        /\ depot' = run.depot
        /\ IF k < Len(chs) \/ chs = <<>>
           THEN /\ res' = Result("abort", 0)
                /\ SetClient(stopped)
                /\ UNCHANGED p4statfile
           ELSE /\ res' = Result("ok", 0)
                /\ p4statfile' = CloseFile(run.client, p4statfile)
                /\ SetClient([run.client EXCEPT !.dirty = FALSE])
        /\ UNCHANGED <<created, repo, labels, pullvars, p4id, pushvars>>
    /\ UNCHANGED svcvars

\* ---------------------------------------------------------- p4revert
\* The changelists 'hg p4revert --all' works on: every int among the states.
RevertChanges(stat) == {stat[n] : n \in NodeIds} \ {None}

\* revert's loop body were it to drop every entry of the store.
RevertMarksAll(cl, file, cs) ==
    [Load(cl, file) EXCEPT !.stat = EmptyStat, !.dirty = TRUE]

\* revert's loop body for the changelists cs: drop every entry of theirs.
RevertMarks(cl, file, cs) ==
    LET c == Load(cl, file)
        hit == {n \in NodeIds : c.stat[n] \in cs}
    IN  IF hit = {} THEN c
        ELSE [c EXCEPT !.stat = [n \in NodeIds |-> IF n \in hit THEN None ELSE c.stat[n]],
                       !.dirty = TRUE]

\* 'p4 revert' and 'p4 change -d' for the changelists cs that can still be
\* described; deleted says whether the depot deleted the open ones.
DepotReverted(dp, cs, deleted) ==
    [c \in 1..Len(dp) |->
        IF c \in cs /\ dp[c].status = "pending" /\ deleted
        THEN [dp[c] EXCEPT !.status = "deleted"]
        ELSE dp[c]]

\* hg p4revert change | hg p4revert --all
P4Revert(change, all, deleted) ==
    LET o == [NoOpts EXCEPT !.op = "p4revert", !.change = change, !.all = all]
        cs == IF change # 0 THEN {change} ELSE RevertChanges(p4statfile)
        cl0 == Client(EmptyStat, FALSE, FALSE)
        cl1 == RevertMarks(cl0, p4statfile, cs)
    IN  /\ created
        /\ pc = "idle"
        /\ change # 0 \/ all
        /\ pc' = "done"
        /\ opts' = o
        /\ IF cs = {}
           THEN /\ res' = Result("abort", 0)
                /\ SetClient(Load(cl0, p4statfile))
                /\ UNCHANGED <<depot, p4statfile>>
           ELSE /\ res' = Result("ok", 0)
                /\ depot' = DepotReverted(depot, cs, deleted)
                /\ p4statfile' = CloseFile(cl1, p4statfile)
                /\ SetClient([cl1 EXCEPT !.dirty = FALSE])
        /\ UNCHANGED <<created, repo, labels, pullvars, p4id, pushvars>>
    /\ UNCHANGED svcvars

\* ------------------------------------------------------- environment
LocalRevs(rp) == {i \in 1..Len(rp) : rp[i].p4 = 0 /\ ~rp[i].tagdesc /\ rp[i].cl = 0}

\* A local revision on q1 (and q2) as LocalCommit makes it.
Local(rp, q1, q2) ==
    Append(rp, Rev(q1, q2, 0, FALSE, [rp[q1].man EXCEPT !["a"] = NextContent(@)], 0))

\* A local revision on q1 that changes a '.hg*' file only (hg tag, or a
\* commit of .hgignore).
LocalHg(rp, q1) ==
    Append(rp, Rev(q1, nullid, 0, FALSE,
                   [rp[q1].man EXCEPT ![".hgtags"] = NextContent(@)], 0))

\* hg commit on q1 (q2 = nullid), or the commit of a merge of q1 and q2.
LocalCommit(q1, q2) ==
    /\ created
    /\ pc = "idle"
    /\ Cardinality(LocalRevs(repo)) < MaxLocal
    /\ q1 \in 1..Len(repo)
    /\ q2 \in 0..Len(repo)
    /\ q2 # nullid => q2 \notin Anc(repo, q1) /\ q1 \notin Anc(repo, q2)
    /\ repo' = Local(repo, q1, q2)
    /\ UNCHANGED <<created, depot, labels, store, pc, opts, pullvars, p4id, pushvars, res>>
    /\ UNCHANGED svcvars

\* The description of a changelist pushed from another repository: its tag
\* names a revision this repository does not hold.
ForeignDesc == [msgs |-> <<MaxNode>>, hgid |-> <<MaxNode>>, intext |-> <<>>]

\* Another user of the depot submits a changelist, by hand or by a push from
\* a repository of their own.
DepotSubmit ==
    /\ pc = "idle"
    /\ Len(depot) < MaxChange
    /\ \E d \in {NoDesc, ForeignDesc} :
          depot' = Append(depot, Change("submitted", d,
                                        Bump(ContentAt(depot, Len(depot)))))
    /\ UNCHANGED <<created, repo, labels, store, pc, opts, pullvars, p4id, pushvars, res>>
    /\ UNCHANGED svcvars

\* ------------------------------------------------------ specifications
\* ------------------------------------------------------------ p4 where
\* p4client.where and p4client.run: depot paths are resolved to local paths
\* through self.wherecache, 'p4 where' being run on at most MAXARGS files at
\* a time.  A path is a sequence of components; the client root is "root".
MaxPaths == 3
MaxArgs == 2
DepotPaths == 1..MaxPaths

\* What the client view makes of a depot path, as 'p4 -G where' reports it.
ViewKinds == {"file", "hgfile", "relhg", "unmap", "notinview", "outside"}

NotCached == [state |-> "absent", lf |-> <<>>]
CachedNone == [state |-> "unmapped", lf |-> <<>>]
Cached(lf) == [state |-> "mapped", lf |-> lf]

\* where['path'] for a depot path of each kind.
WherePath(df, kind) ==
    CASE kind = "file"    -> <<"root", "f", df>>
      [] kind = "hgfile"  -> <<"root", ".hg", "f", df>>
      [] kind = "relhg"   -> <<".hg", "f", df>>
      [] kind = "outside" -> <<"elsewhere", "f", df>>
      [] OTHER            -> <<"root", "f", df>>

\* The dictionary 'p4 -G where' prints for one depot path.
WhereReplyOf(df, kind) ==
    IF kind = "notinview"
    THEN [code |-> "error", severity |-> 2, generic |-> 17, depotFile |-> df,
          path |-> <<>>, unmap |-> FALSE]
    ELSE [code |-> "stat", severity |-> 0, generic |-> 0, depotFile |-> df,
          path |-> WherePath(df, kind), unmap |-> (kind = "unmap")]

\* An error of the depot that is not "file(s) not in client view".
OtherError(df) ==
    [code |-> "error", severity |-> 3, generic |-> 33, depotFile |-> df,
     path |-> <<>>, unmap |-> FALSE]

\* range(0, len(files), self.MAXARGS) or [0]
RangeStepFloor(len, step) ==
    [k \in 1..(len \div step) |-> (k - 1) * step]
RangeStep(len, step) ==
    [k \in 1..((len + step - 1) \div step) |-> (k - 1) * step]
Batches(len, step) ==
    IF RangeStep(len, step) = <<>> THEN <<0>> ELSE RangeStep(len, step)

\* files[i:i + self.MAXARGS]
Slice(s, i, step) ==
    SubSeq(s, i + 1, IF i + step <= Len(s) THEN i + step ELSE Len(s))

\* lf.startswith('.hg'), lf.startswith('%s/' % self.root)
PathStartsWithHg(p) == Len(p) > 0 /\ p[1] = ".hg"
PathStartsWithRoot(p) == Len(p) > 1 /\ p[1] = "root"

\* The replies of one 'p4 where' on the files fs: one for each file, unless
\* the view repeats a file, the reply is cut short, or the depot fails.
QueryReplies(fs, anomaly) ==
    LET rs == [k \in 1..Len(fs) |-> WhereReplyOf(fs[k], view[fs[k]])]
    IN  CASE anomaly = "none"  -> rs
          [] anomaly = "short" -> Tail(rs)
          [] anomaly = "dup"   -> <<Head(rs)>> \o rs
          [] anomaly = "error" -> <<OtherError(fs[1])>> \o Tail(rs)

\* The part of where that reads the cache: (result, fdict).
RECURSIVE FromCache(_, _)
FromCache(fs, cache) ==
    IF fs = <<>> THEN <<>>
    ELSE LET df == Head(fs)
         IN  (IF cache[df].state = "mapped"
              THEN <<[df |-> df, lf |-> cache[df].lf]>> ELSE <<>>)
             \o FromCache(Tail(fs), cache)

Where(fs) ==
    /\ wpc \in {"idle", "done"}
    /\ wfiles' = fs
    /\ result' = FromCache(SortedSeq(fs), wherecache)
    /\ LET fdict == {df \in fs : wherecache[df].state = "absent"}
       IN  /\ flist' = SortedSeq(fdict)
           /\ IF fdict # {}
              THEN /\ wpc' = "run" /\ wres' = "none"
                   /\ batches' = Batches(Cardinality(fdict), MAXARGS)
              ELSE /\ wpc' = "done" /\ wres' = "ok"
                   /\ batches' = <<>>
    /\ replies' = <<>> /\ wn' = 0 /\ queries' = 0
    /\ UNCHANGED <<MAXARGS, view, wherecache>>
    /\ UNCHANGED <<cmdvars, storevars, racevars, openvars>>

\* run: the next command is started when the loop asks for the next reply.
WhereQuery(anomaly) ==
    /\ wpc = "run" /\ replies = <<>> /\ batches # <<>>
    /\ queries' = queries + 1
    /\ replies' = QueryReplies(Slice(flist, Head(batches), MAXARGS), anomaly)
    /\ batches' = Tail(batches)
    /\ UNCHANGED <<MAXARGS, view, wherecache, wpc, wfiles, flist, wn, result, wres>>
    /\ UNCHANGED <<cmdvars, storevars, racevars, openvars>>

\* One turn of 'for where in self.run(...)'.
WhereReply ==
    /\ wpc = "run" /\ replies # <<>>
    /\ LET where == Head(replies)
           df == where.depotFile
           lf == where.path
       IN  /\ wn' = wn + 1
           /\ replies' = Tail(replies)
           /\ IF where.code = "error"
              THEN IF where.severity = 2 /\ where.generic = 17
                   THEN UNCHANGED <<wherecache, result, wpc, wres>>
                   ELSE /\ wpc' = "done" /\ wres' = "abort"
                        /\ UNCHANGED <<wherecache, result>>
              ELSE IF where.unmap \/ PathStartsWithHg(lf)
                   THEN /\ wherecache' = [wherecache EXCEPT ![df] = CachedNone]
                        /\ UNCHANGED <<result, wpc, wres>>
                   ELSE IF PathStartsWithRoot(lf)
                        THEN /\ wherecache' =
                                  [wherecache EXCEPT ![df] = Cached(Tail(lf))]
                             /\ result' = Append(result,
                                                 [df |-> df, lf |-> Tail(lf)])
                             /\ UNCHANGED <<wpc, wres>>
                        ELSE /\ wpc' = "done" /\ wres' = "invalid"
                             /\ UNCHANGED <<wherecache, result>>
    /\ UNCHANGED <<MAXARGS, view, wfiles, flist, batches, queries>>
    /\ UNCHANGED <<cmdvars, storevars, racevars, openvars>>

\* After the loop: n against len(flist).
WhereEnd ==
    /\ wpc = "run" /\ replies = <<>> /\ batches = <<>>
    /\ wpc' = "done"
    /\ wres' = IF wn < Len(flist) THEN "incomplete"
               ELSE IF wn > Len(flist) THEN "oversized" ELSE "ok"
    /\ UNCHANGED <<MAXARGS, view, wherecache, wfiles, flist, batches, replies,
                   wn, result, queries>>
    /\ UNCHANGED <<cmdvars, storevars, racevars, openvars>>

\* The command ends; the next one makes a new p4client.
NewClient ==
    /\ wpc = "done"
    /\ wpc' = "idle" /\ wres' = "none"
    /\ wherecache' = [df \in DepotPaths |-> NotCached]
    /\ wfiles' = {} /\ flist' = <<>> /\ batches' = <<>> /\ replies' = <<>>
    /\ wn' = 0 /\ result' = <<>> /\ queries' = 0
    /\ UNCHANGED <<MAXARGS, view>>
    /\ UNCHANGED <<cmdvars, storevars, racevars, openvars>>

WhereIdle ==
    /\ wherecache = [df \in DepotPaths |-> NotCached]
    /\ wpc = "idle" /\ wres = "none"
    /\ wfiles = {} /\ flist = <<>> /\ batches = <<>> /\ replies = <<>>
    /\ wn = 0 /\ result = <<>> /\ queries = 0

\* ------------------------------------------------------------ .hg/p4stat
\* The file .hg/p4stat as text, and the p4clients of up to MaxSessions
\* commands running on one repository.  A line is '<node> <state>'; what
\* stands after the first space is "submitted" or a number.
MaxSessions == 2
MaxLines == 2
MaxStoreNode == 2
MaxPending == 2
Sessions == 1..MaxSessions
StoreNodes == 1..MaxStoreNode
StoreStates == {None, SUBMITTED} \cup 1..MaxPending

\* str(state) for the numbers written, and what int() makes of a text.
Digits == <<"1", "2", "3", "4", "5", "6", "7", "8", "9">>
Str(i) == IF i = -1 THEN "-1" ELSE IF i = 0 THEN "0" ELSE Digits[i]
IsInt(t) == t \in {"-1", "0"} \cup Range(Digits)
ParseInt(t) ==
    IF t = "-1" THEN -1 ELSE IF t = "0" THEN 0
    ELSE CHOOSE i \in DOMAIN Digits : Digits[i] = t

\* line[1].startswith('s')
StartsWithS(t) == t \in {"submitted", "s"}

\* A line of the file: the node, whether a space follows it, and the rest.
Line(n, space, t) == [node |-> n, space |-> space, text |-> t]
StoreTexts == {"submitted", "-1", "x"} \cup {Str(i) : i \in 1..MaxPending}
StoreLines ==
    {Line(n, TRUE, t) : n \in StoreNodes, t \in StoreTexts}
        \cup {Line(n, FALSE, "") : n \in StoreNodes}
MissingFile == [exists |-> FALSE, lines |-> <<>>]
File(ls) == [exists |-> TRUE, lines |-> ls]

\* The loop of _readp4stat were it to stop after its first line.
ReadLinesFirst(ls, stat) ==
    IF ls = <<>> \/ ~Head(ls).space THEN stat
    ELSE IF StartsWithS(Head(ls).text) THEN [stat EXCEPT ![Head(ls).node] = SUBMITTED]
    ELSE IF IsInt(Head(ls).text)
         THEN [stat EXCEPT ![Head(ls).node] = ParseInt(Head(ls).text)]
         ELSE stat

\* The loop of _readp4stat: an exception (no second field, int() of a text
\* that is no number) ends it and leaves what was read before.
RECURSIVE ReadLines(_, _)
ReadLines(ls, stat) ==
    IF ls = <<>> THEN stat
    ELSE LET l == Head(ls)
         IN  IF ~l.space THEN stat
             ELSE IF StartsWithS(l.text)
                  THEN ReadLines(Tail(ls), [stat EXCEPT ![l.node] = SUBMITTED])
                  ELSE IF IsInt(l.text)
                       THEN ReadLines(Tail(ls),
                                      [stat EXCEPT ![l.node] = ParseInt(l.text)])
                       ELSE stat

\* p4client._readp4stat on the text: the dictionary it leaves in self.p4stat.
ReadText(file) ==
    IF file.exists THEN ReadLines(file.lines, EmptyStat) ELSE EmptyStat

\* p4client._writep4stat: one line for each key of self.p4stat.
RECURSIVE WriteLines(_, _)
WriteLines(stat, ns) ==
    IF ns = <<>> THEN <<>>
    ELSE <<Line(Head(ns), TRUE,
                IF stat[Head(ns)] = SUBMITTED THEN "submitted"
                ELSE Str(stat[Head(ns)]))>>
         \o WriteLines(stat, Tail(ns))
WriteText(stat) ==
    File(WriteLines(stat, SortedSeq({n \in NodeIds : stat[n] # None})))

\* A command starts: a new p4client, self.p4stat = None.
StoreOpen(s) ==
    /\ cstate[s] # "open"
    /\ cstate' = [cstate EXCEPT ![s] = "open"]
    /\ clients' = [clients EXCEPT ![s] = Client(EmptyStat, FALSE, FALSE)]
    /\ written' = [written EXCEPT ![s] = 0]
    /\ altered' = [altered EXCEPT ![s] = FALSE]
    /\ UNCHANGED p4statlines
    /\ UNCHANGED <<cmdvars, wherevars, racevars, openvars>>

\* client.getpending(n) or client.getpendingdict()
StoreGet(s) ==
    /\ cstate[s] = "open"
    /\ clients' = [clients EXCEPT ![s] = Load(clients[s], ReadText(p4statlines))]
    /\ UNCHANGED <<p4statlines, cstate, written, altered>>
    /\ UNCHANGED <<cmdvars, wherevars, racevars, openvars>>

\* client.setpending(n, state)
StoreSet(s, n, state) ==
    /\ cstate[s] = "open"
    /\ clients' = [clients EXCEPT
                      ![s] = SetPending(clients[s], ReadText(p4statlines), n, state)]
    /\ altered' = [altered EXCEPT
                      ![s] = @ \/ clients'[s].stat # Load(clients[s],
                                                         ReadText(p4statlines)).stat]
    /\ UNCHANGED <<p4statlines, cstate, written>>
    /\ UNCHANGED <<cmdvars, wherevars, racevars, openvars>>

\* client.close() at the end of the command
StoreClose(s) ==
    /\ cstate[s] = "open"
    /\ cstate' = [cstate EXCEPT ![s] = "closed"]
    /\ IF clients[s].dirty
       THEN /\ p4statlines' = WriteText(clients[s].stat)
            /\ clients' = [clients EXCEPT ![s].dirty = FALSE]
            /\ written' = [written EXCEPT ![s] = @ + 1]
       ELSE UNCHANGED <<p4statlines, clients, written>>
    /\ UNCHANGED altered
    /\ UNCHANGED <<cmdvars, wherevars, racevars, openvars>>

\* The bytes of a line '%s %s\n' of the file: the 40 digits of n.hex(), the
\* space, the state and the end of line.
TextLen(t) == IF t = "submitted" THEN 9 ELSE IF t = "-1" THEN 2 ELSE Len(t)
LineBytes(l) == HexLen + 1 + TextLen(l.text) + 1
RECURSIVE Bytes(_)
Bytes(ls) == IF ls = <<>> THEN 0 ELSE LineBytes(Head(ls)) + Bytes(Tail(ls))

\* What is left of line l after its first k bytes: the end of the node's
\* digits with the state (a key that is no revision's), or a text without a
\* second field.
Fragment(l, k) ==
    IF k < HexLen THEN Line(MaxNode, TRUE, l.text) ELSE Line(l.node, FALSE, "")

\* The lines ls from byte k on.
RECURSIVE TailAt(_, _)
TailAt(ls, k) ==
    IF ls = <<>> \/ k = 0 THEN ls
    ELSE IF k >= LineBytes(Head(ls)) THEN TailAt(Tail(ls), k - LineBytes(Head(ls)))
    ELSE <<Fragment(Head(ls), k)>> \o Tail(ls)

\* The file after two writers opened it with 'w' before either wrote: the
\* text tb written last lies over the start of the text ta written first.
Overlay(tb, ta) ==
    File(tb.lines \o TailAt(ta.lines, Bytes(tb.lines)))

\* A command's client.getpending(n) or getpendingdict(): the first one reads
\* the file as it is at that moment.
RaceGet(s) ==
    /\ rpc[s] = "run"
    /\ ~racers[s].loaded
    /\ racers' = [racers EXCEPT ![s] = Load(racers[s], ReadText(racefile))]
    /\ rbase' = [rbase EXCEPT ![s] = ReadText(racefile)]
    /\ UNCHANGED <<racefile, rpc, rlast>>
    /\ UNCHANGED <<cmdvars, wherevars, storevars, openvars>>

\* client.setpending(n, state)
RaceSet(s, n, state) ==
    /\ rpc[s] = "run"
    /\ racers' = [racers EXCEPT ![s] = SetPending(racers[s], ReadText(racefile), n, state)]
    /\ rbase' = IF racers[s].loaded THEN rbase
                ELSE [rbase EXCEPT ![s] = ReadText(racefile)]
    /\ UNCHANGED <<racefile, rpc, rlast>>
    /\ UNCHANGED <<cmdvars, wherevars, storevars, openvars>>

\* client.close() with p4statdirty clear: nothing is written.
RaceCloseClean(s) ==
    /\ rpc[s] = "run"
    /\ ~racers[s].dirty
    /\ rpc' = [rpc EXCEPT ![s] = "closed"]
    /\ rlast' = s
    /\ UNCHANGED <<racefile, racers, rbase>>
    /\ UNCHANGED <<cmdvars, wherevars, storevars, openvars>>

\* client.close() with p4statdirty set, first step: _writep4stat opens the
\* file with mode 'w', which empties it.
RaceOpen(s) ==
    /\ rpc[s] = "run"
    /\ racers[s].dirty
    /\ rpc' = [rpc EXCEPT ![s] = "writing"]
    /\ racefile' = File(<<>>)
    /\ UNCHANGED <<racers, rbase, rlast>>
    /\ UNCHANGED <<cmdvars, wherevars, storevars, openvars>>

\* _writep4stat, second step: the lines reach the file at fd.close(), from
\* the start of the file on, over what another writer put there meanwhile.
RaceWrite(s) ==
    /\ rpc[s] = "writing"
    /\ rpc' = [rpc EXCEPT ![s] = "closed"]
    /\ racefile' = Overlay(WriteText(racers[s].stat), racefile)
    /\ racers' = [racers EXCEPT ![s].dirty = FALSE]
    /\ rlast' = s
    /\ UNCHANGED rbase
    /\ UNCHANGED <<cmdvars, wherevars, storevars, openvars>>

\* ------------------------------------------------------------ push: opening
\* The files of a push: what pushcommon finds changed between ctx1 and ctx2,
\* and the p4 commands and workspace writes push makes of it.

NoPath == ""

\* The manifests of ctx1 and ctx2 (path -> content, 0: absent) and what
\* copies.copies returns for them (path of ctx2 -> the path it was copied from).
Contexts(m1, m2, cp) == [m1 |-> m1, m2 |-> m2, cp |-> cp]

NoContexts ==
    Contexts([f \in OpenPaths |-> 0], [f \in OpenPaths |-> 0],
             [f \in OpenPaths |-> NoPath])

\* copies.copies(repo, ctx1, ctx2, repo[node.nullid])[0]
CopyCandidates(m1, m2) ==
    {cp \in [OpenPaths -> OpenPaths \cup {NoPath}] :
        \A f \in OpenPaths :
            cp[f] # NoPath => m2[f] # 0 /\ m1[cp[f]] # 0 /\ cp[f] # f}

\* repo.status(node1=ctx1.node(), node2=ctx2.node())[:3]
OpenStatus(m1, m2) ==
    [mod |-> {f \in OpenPaths : m1[f] # 0 /\ m2[f] # 0 /\ m1[f] # m2[f]},
     add |-> {f \in OpenPaths : m1[f] = 0 /\ m2[f] # 0},
     rem |-> {f \in OpenPaths : m1[f] # 0 /\ m2[f] = 0}]

\* forget about copies with changes to the data
Forget(w) ==
    [f \in OpenPaths |->
        IF w.cp[f] # NoPath /\ w.m2[f] = w.m1[w.cp[f]] THEN w.cp[f] ELSE NoPath]

Export(mod, add, rem, cpy, ntg) ==
    [mod |-> mod, add |-> add, rem |-> rem, cpy |-> cpy, ntg |-> ntg]

NoExport == Export({}, {}, {}, NoContexts.cp, {})

\* One p4 command with its file arguments, or one file written ("write").
Cmd(cmd, files, src) == [cmd |-> cmd, files |-> files, src |-> src]

\* ntg = [(cpy[f], f) for f in add if f in cpy]
Ntg(e) == {f \in e.add : e.cpy[f] # NoPath}

\* add = [f for f in add if f not in cpy]
PlainAddAll(e) == e.add

PlainAdd(e) == {f \in e.add : e.cpy[f] = NoPath}

\* The paths of a list, in the order of the list.
RECURSIVE InOrder(_)
InOrder(S) ==
    IF S = {} THEN <<>>
    ELSE LET f == CHOOSE x \in S : TRUE IN <<f>> \o InOrder(S \ {f})

\* client.runs(cmd, files=files) of a step that is skipped for no files
RunIf(cmd, files) == IF files = {} THEN <<>> ELSE <<Cmd(cmd, files, NoPath)>>

\* client.runs('edit -c %s' % use, files=mod)
EditCmds(e) == RunIf("edit", e.mod)

\* for f in mod + add: ... fp.write(data)
RECURSIVE Writes(_)
Writes(fs) ==
    IF fs = <<>> THEN <<>>
    ELSE <<Cmd("write", {Head(fs)}, NoPath)>> \o Writes(Tail(fs))

WriteCmds(e) == Writes(InOrder(e.mod) \o InOrder(e.add))

\* client.runs('add -c %s' % use, files=add)
AddCmds(e) == RunIf("add", e.add)

\* for f in ntg: client.runs('integrate -c %s %s %s' % (use, f[0], f[1]))
RECURSIVE Integrates(_, _)
Integrates(e, fs) ==
    IF fs = <<>> THEN <<>>
    ELSE <<Cmd("integrate", {Head(fs)}, e.cpy[Head(fs)])>>
             \o Integrates(e, Tail(fs))

IntegrateCmds(e) == Integrates(e, InOrder(e.ntg))

\* client.runs('delete -c %s' % use, files=rem)
DeleteCmds(e) == RunIf("delete", e.rem)

\* pushcommon, "find changed files": mod, add, rem without the .hg* files and
\* the copies left; the push ends with "no changes found" when all are empty.
OpenCommon ==
    LET st == OpenStatus(wctx.m1, wctx.m2)
        e == Export(RemoveHg(st.mod), RemoveHg(st.add), RemoveHg(st.rem),
                    Forget(wctx), {})
    IN  /\ opc = "common"
        /\ exp' = e
        /\ opc' = IF e.mod \cup e.add \cup e.rem = {} THEN "nochanges" ELSE "sync"
        /\ UNCHANGED <<wctx, p4log>>
        /\ UNCHANGED <<cmdvars, wherevars, storevars, racevars>>

\* sync to the last revision pulled/converted
OpenSync(keep) ==
    /\ opc = "sync"
    /\ p4log' = p4log \o
            (IF keep THEN <<Cmd("sync", {}, NoPath)>>
             ELSE <<Cmd("sync -k", {}, NoPath), Cmd("sync -f", exp.mod, NoPath)>>)
    /\ opc' = "change"
    /\ UNCHANGED <<wctx, exp>>
    /\ UNCHANGED <<cmdvars, wherevars, storevars, racevars>>

\* The changelist: with one to reuse its files are reverted; change -i gives
\* the number (ok) or the push aborts; then the copies leave the adds.
OpenChange(reuse, ok) ==
    /\ opc = "change"
    /\ p4log' = p4log \o
            (IF reuse
             THEN <<Cmd("revert", exp.mod \cup exp.add \cup exp.rem, NoPath)>>
             ELSE <<>>)
    /\ IF ok
       THEN /\ opc' = "edit"
            /\ exp' = [exp EXCEPT !.ntg = Ntg(exp), !.add = PlainAdd(exp)]
       ELSE /\ opc' = "abort"
            /\ UNCHANGED exp
    /\ UNCHANGED wctx
    /\ UNCHANGED <<cmdvars, wherevars, storevars, racevars>>

\* now add/edit/delete the files
OpenEdit ==
    /\ opc = "edit"
    /\ p4log' = p4log \o EditCmds(exp)
    /\ opc' = "write"
    /\ UNCHANGED <<wctx, exp>>
    /\ UNCHANGED <<cmdvars, wherevars, storevars, racevars>>

\* retrieving file contents
OpenWrite ==
    /\ opc = "write"
    /\ p4log' = p4log \o WriteCmds(exp)
    /\ opc' = "add"
    /\ UNCHANGED <<wctx, exp>>
    /\ UNCHANGED <<cmdvars, wherevars, storevars, racevars>>

OpenAdd ==
    /\ opc = "add"
    /\ p4log' = p4log \o AddCmds(exp)
    /\ opc' = "integrate"
    /\ UNCHANGED <<wctx, exp>>
    /\ UNCHANGED <<cmdvars, wherevars, storevars, racevars>>

OpenIntegrate ==
    /\ opc = "integrate"
    /\ p4log' = p4log \o IntegrateCmds(exp)
    /\ opc' = "delete"
    /\ UNCHANGED <<wctx, exp>>
    /\ UNCHANGED <<cmdvars, wherevars, storevars, racevars>>

OpenDelete ==
    /\ opc = "delete"
    /\ p4log' = p4log \o DeleteCmds(exp)
    /\ opc' = "opened"
    /\ UNCHANGED <<wctx, exp>>
    /\ UNCHANGED <<cmdvars, wherevars, storevars, racevars>>

\* The commands of the step that comes next.
StepCmds(step, e) ==
    IF step = "edit" THEN EditCmds(e)
    ELSE IF step = "add" THEN AddCmds(e)
    ELSE IF step = "integrate" THEN IntegrateCmds(e)
    ELSE IF step = "delete" THEN DeleteCmds(e)
    ELSE <<>>

\* run() with abort=True: p4 answers one of the step's commands with an error.
OpenAbort ==
    LET cmds == StepCmds(opc, exp)
    IN  /\ cmds # <<>>
        /\ \E k \in DOMAIN cmds : p4log' = p4log \o SubSeq(cmds, 1, k)
        /\ opc' = "abort"
        /\ UNCHANGED <<wctx, exp>>
        /\ UNCHANGED <<cmdvars, wherevars, storevars, racevars>>

OpenIdle ==
    /\ opc = "common"
    /\ exp = NoExport
    /\ p4log = <<>>

RaceIdle ==
    /\ racers = [s \in Sessions |-> Client(EmptyStat, FALSE, FALSE)]
    /\ rpc = [s \in Sessions |-> "run"]
    /\ rbase = [s \in Sessions |-> EmptyStat]
    /\ rlast = 0

StoreIdle ==
    /\ cstate = [s \in Sessions |-> "none"]
    /\ clients = [s \in Sessions |-> Client(EmptyStat, FALSE, FALSE)]
    /\ written = [s \in Sessions |-> 0]
    /\ altered = [s \in Sessions |-> FALSE]

\* The commands of the extension in an existing repository.
Commands ==
    \/ Pull
    \/ \E how \in {"ok", "describe", "commit", "labels"} : PullStep(how)
    \/ \E how \in {"ok", "commit"} : PullFinally(how)
    \/ \E rev \in {<<>>} \cup {<<n>> : n \in 1..Len(repo)} :
          \E force \in BOOLEAN : Push(rev, force)
    \/ \E how \in {"ok", "change", "open"} : PushDepot(how)
    \/ \E submit \in BOOLEAN : \E how \in {"ok", "error"} : PushFinish(submit, how)
    \/ \E c \in 1..MaxChange : \E k \in 0..1 : P4Submit(c, FALSE, k)
    \/ \E k \in 0..MaxChange : P4Submit(0, TRUE, k)
    \/ \E c \in 1..MaxChange : \E deleted \in BOOLEAN : P4Revert(c, FALSE, deleted)
    \/ \E deleted \in BOOLEAN : P4Revert(0, TRUE, deleted)
    \/ Return

\* A depot of n changelists submitted by its users, one of them possibly
\* deleted before it was submitted; contents of path "a" follow each other.
NativeDepot(n, gap) ==
    [c \in 1..n |->
        Change(IF c = gap THEN "deleted" ELSE "submitted", NoDesc,
               IF c = gap THEN -1 ELSE 1 + (c % MaxContent))]

InitCommon ==
    /\ p4statfile = EmptyStat
    /\ p4stat = EmptyStat /\ p4statloaded = FALSE /\ p4statdirty = FALSE
    /\ pc = "idle" /\ opts = NoOpts
    /\ changes = <<>> /\ p4rev = nullid /\ p4id = 0 /\ startrev = 0
    /\ tags = {} /\ failed = FALSE
    /\ cand = <<>> /\ nodes = <<>> /\ ctx1 = nullid /\ ctx2 = nullid
    /\ desc = NoDesc /\ use = 0
    /\ res = NoRes
    /\ WhereIdle
    /\ StoreIdle
    /\ RaceIdle
    /\ OpenIdle

\* Outside p4 where the view maps every path and MAXARGS is not reached.
NoWhere ==
    /\ MAXARGS = MaxArgs
    /\ view = [df \in DepotPaths |-> "file"]

\* In the commands the store is p4statfile, the text read already.
NoText == p4statlines = MissingFile

\* Outside the commands that run at the same time.
NoRace == racefile = MissingFile

\* Outside the opening of files.
NoOpen == wctx = NoContexts

\* Before hg clone: no repository, a depot with its history.
InitClone ==
    /\ created = FALSE
    /\ repo = <<>>
    /\ \E n \in 0..CloneMaxChange : \E gap \in 0..n : depot = NativeDepot(n, gap)
    /\ \E ls \in SUBSET (1..CloneMaxChange) :
          /\ Cardinality(ls) <= MaxLabels
          /\ \A c \in ls : c <= Len(depot) /\ depot[c].status = "submitted"
          /\ labels = ls
    /\ InitCommon
    /\ NoWhere
    /\ NoText
    /\ NoRace
    /\ NoOpen

NextClone ==
    \/ \E sr \in -2..CloneMaxChange : Clone(sr)
    \/ Pull
    \/ \E how \in {"ok", "describe", "commit", "labels"} : PullStep(how)
    \/ \E how \in {"ok", "commit"} : PullFinally(how)
    \/ Return

SpecClone == InitClone /\ [][NextClone]_vars

\* After hg clone of a depot holding one changelist.
Init ==
    /\ created = TRUE
    /\ depot = NativeDepot(1, 0)
    /\ repo = <<Rev(nullid, nullid, 1, FALSE,
                    [EmptyManifest EXCEPT !["a"] = depot[1].fa], 1)>>
    /\ labels = {}
    /\ InitCommon
    /\ NoWhere
    /\ NoText
    /\ NoRace
    /\ NoOpen

\* Commits by the user and submits by other users of the depot come between
\* the commands.
Next ==
    \/ Commands
    \/ \E q1 \in 1..Len(repo) : \E q2 \in 0..Len(repo) : LocalCommit(q1, q2)
    \/ DepotSubmit

Spec == Init /\ [][Next]_vars

\* The commands without --force and without p4revert, every step of theirs
\* succeeding, and the user's commits.
NextPlain ==
    \/ Pull
    \/ PullStep("ok")
    \/ PullFinally("ok")
    \/ \E rev \in {<<>>} \cup {<<n>> : n \in 1..Len(repo)} : Push(rev, FALSE)
    \/ PushDepot("ok")
    \/ \E submit \in BOOLEAN : PushFinish(submit, "ok")
    \/ \E c \in 1..MaxChange : P4Submit(c, FALSE, 1)
    \/ Return
    \/ \E q1 \in 1..Len(repo) : \E q2 \in 0..Len(repo) : LocalCommit(q1, q2)

SpecPlain == Init /\ [][NextPlain]_vars

\* After hg clone and three commits: a chain on the imported revision, two
\* revisions on it joined by a merge, or a chain whose first and last
\* revisions change a '.hg*' file only.
InitHistory ==
    /\ created = TRUE
    /\ depot = NativeDepot(1, 0)
    /\ LET r0 == <<Rev(nullid, nullid, 1, FALSE,
                       [EmptyManifest EXCEPT !["a"] = depot[1].fa], 1)>>
       IN  \/ repo = Local(Local(Local(r0, 1, nullid), 2, nullid), 3, nullid)
           \/ repo = Local(Local(Local(r0, 1, nullid), 1, nullid), 3, 2)
           \/ repo = LocalHg(Local(LocalHg(r0, 1), 2, nullid), 3)
    /\ labels = {}
    /\ InitCommon
    /\ NoWhere
    /\ NoText
    /\ NoRace
    /\ NoOpen

SpecHistory == InitHistory /\ [][Commands]_vars

\* A user of the depot labels a submitted changelist.
DepotLabel(c) ==
    /\ pc = "idle"
    /\ c \in 1..Len(depot) /\ depot[c].status = "submitted"
    /\ c \notin labels
    /\ Cardinality(labels) < MaxLabels
    /\ labels' = labels \cup {c}
    /\ UNCHANGED <<created, repo, depot, store, pc, opts, pullvars, p4id, pushvars, res>>
    /\ UNCHANGED svcvars

\* A user of the depot reverts and deletes an open changelist with p4 itself.
DepotDelete(c) ==
    /\ pc = "idle"
    /\ c \in 1..Len(depot) /\ depot[c].status = "pending"
    /\ depot' = [depot EXCEPT ![c].status = "deleted"]
    /\ UNCHANGED <<created, repo, labels, store, pc, opts, pullvars, p4id, pushvars, res>>
    /\ UNCHANGED svcvars

\* The commands with labels and deletions by depot users coming between them.
NextTags ==
    \/ Commands
    \/ \E c \in 1..MaxChange : DepotLabel(c)
    \/ \E c \in 1..MaxChange : DepotDelete(c)

\* After hg clone and two commits.
InitTags ==
    /\ created = TRUE
    /\ depot = NativeDepot(1, 0)
    /\ repo = Local(Local(<<Rev(nullid, nullid, 1, FALSE,
                                [EmptyManifest EXCEPT !["a"] = depot[1].fa], 1)>>,
                          1, nullid), 2, nullid)
    /\ labels = {}
    /\ InitCommon
    /\ NoWhere
    /\ NoText
    /\ NoRace
    /\ NoOpen

SpecTags == InitTags /\ [][NextTags]_vars

\* One p4client after another resolving depot paths; no repository is needed.
InitWhere ==
    /\ created = FALSE /\ repo = <<>> /\ depot = <<>> /\ labels = {}
    /\ InitCommon
    /\ MAXARGS \in 1..MaxArgs
    /\ view \in [DepotPaths -> ViewKinds]
    /\ NoText
    /\ NoRace
    /\ NoOpen

NextWhere ==
    \/ \E fs \in SUBSET DepotPaths : Where(fs)
    \/ \E anomaly \in {"none", "short", "dup", "error"} : WhereQuery(anomaly)
    \/ WhereReply
    \/ WhereEnd
    \/ NewClient

SpecWhere == InitWhere /\ [][NextWhere]_vars

\* Commands opening, using and closing the store on a file of any text.
InitStore ==
    /\ created = TRUE /\ repo = <<>> /\ depot = <<>> /\ labels = {}
    /\ InitCommon
    /\ NoWhere
    /\ \E k \in 0..MaxLines : \E ls \in [1..k -> StoreLines] :
          p4statlines \in {MissingFile, File(ls)}
    /\ NoRace
    /\ NoOpen

NextStore ==
    \/ \E s \in Sessions : StoreOpen(s)
    \/ \E s \in Sessions : StoreGet(s)
    \/ \E s \in Sessions : \E n \in StoreNodes : \E state \in StoreStates :
          StoreSet(s, n, state)
    \/ \E s \in Sessions : StoreClose(s)

SpecStore == InitStore /\ [][NextStore]_vars

\* The mappings of the revisions StoreNodes to a state.
StoreStats ==
    {[n \in NodeIds |-> IF n \in StoreNodes THEN f[n] ELSE None] :
        f \in [StoreNodes -> StoreStates]}

\* Two commands started at the same time on a file an earlier command wrote.
InitRace ==
    /\ created = TRUE /\ repo = <<>> /\ depot = <<>> /\ labels = {}
    /\ InitCommon
    /\ NoWhere
    /\ NoText
    /\ racefile \in {MissingFile} \cup {WriteText(st) : st \in StoreStats}
    /\ NoOpen

NextRace ==
    \/ \E s \in Sessions : RaceGet(s)
    \/ \E s \in Sessions : \E n \in StoreNodes : \E state \in StoreStates :
          RaceSet(s, n, state)
    \/ \E s \in Sessions : RaceCloseClean(s)
    \/ \E s \in Sessions : RaceOpen(s)
    \/ \E s \in Sessions : RaceWrite(s)

SpecRace == InitRace /\ [][NextRace]_vars

\* A push of any two contexts over OpenPaths, with any copies between them.
InitOpen ==
    /\ created = TRUE /\ repo = <<>> /\ depot = <<>> /\ labels = {}
    /\ InitCommon
    /\ NoWhere
    /\ NoText
    /\ NoRace
    /\ \E m1 \in [OpenPaths -> 0..MaxContent] :
       \E m2 \in [OpenPaths -> 0..MaxContent] :
       \E cp \in CopyCandidates(m1, m2) : wctx = Contexts(m1, m2, cp)

NextOpen ==
    \/ OpenCommon
    \/ \E keep \in BOOLEAN : OpenSync(keep)
    \/ \E reuse \in BOOLEAN : \E ok \in BOOLEAN : OpenChange(reuse, ok)
    \/ OpenEdit
    \/ OpenWrite
    \/ OpenAdd
    \/ OpenIntegrate
    \/ OpenDelete
    \/ OpenAbort

SpecOpen == InitOpen /\ [][NextOpen]_vars

\* ------------------------------------------------------------ claims
\* The submitted changelists of the depot.
Submitted(dp) == {c \in 1..Len(dp) : dp[c].status = "submitted"}

\* The changelists the pull that has just ended imported.
Imported == {repo[i].p4 : i \in {k \in 1..Len(repo) : repo[k].p4 > p4id}}

\* C1: when a pull has imported changelist c, no revision is left marked
\* Pending(c) in the store, whatever the shape of the local history.
C1Claim ==
    (pc = "done" /\ opts.op = "pull" /\ res.outcome = "ok")
        => \A c \in Imported : \A r \in NodeIds : p4statfile[r] # c

\* C2: an entry that is Submitted becomes absent only while a pull is
\* importing; push, p4submit and p4revert (of one changelist or --all) never
\* remove a Submitted entry.
C2Claim ==
    [][\A n \in NodeIds :
          (p4statfile[n] = SUBMITTED /\ p4statfile'[n] = None)
              => opts'.op \in {"pull", "clone"}]_vars

\* C3: a push without submit that reaches its end marks every revision of
\* the trimmed range Pending(n), n being the number of the changelist it
\* created or reused, and changes no entry outside that range; before that
\* last step the push leaves the store as it was.
C3Theorem ==
    [][/\ (pc = "pushfin" /\ res'.outcome = "pending") =>
            /\ use \in 1..Len(depot')
            /\ depot'[use].status = "pending"
            /\ depot'[use].desc = Describe(repo, nodes)
            /\ ~opts.force => nodes = Trim(cand, p4statfile)
            /\ \A n \in NodeIds :
                  /\ p4statfile'[n] = IF n \in Range(nodes) THEN use ELSE p4statfile[n]
                  /\ p4stat'[n] = p4statfile'[n]
       /\ (opts'.op = "push" /\ pc # "pushfin") =>
            /\ p4statfile' = p4statfile
            /\ ~p4statdirty'
            /\ p4stat' = IF p4statloaded' THEN p4statfile ELSE EmptyStat
      ]_vars

C3Witness ==
    /\ pc = "done" /\ opts.op = "push" /\ res.outcome = "pending"
    /\ ~opts.force
    /\ nodes # <<>> /\ nodes # cand
    /\ \A n \in Range(nodes) : p4statfile[n] = use
    /\ \E n \in Range(cand) : p4statfile[n] \notin {None, use}

\* C4: a revision is marked Submitted only in a step in which the depot has
\* taken the submit of a changelist exporting it; when the depot answers a
\* submit with an error record the command aborts, the store file is not
\* written, and the submit marks nothing in memory either.
C4Theorem ==
    [][/\ \A n \in NodeIds :
            (/\ p4statfile'[n] = SUBMITTED \/ p4stat'[n] = SUBMITTED
             /\ p4statfile[n] # SUBMITTED /\ p4stat[n] # SUBMITTED
             /\ opts'.op \in {"push", "p4submit"})
                => \E c \in 1..Len(depot') :
                      /\ depot'[c].status = "submitted"
                      /\ c \notin Submitted(depot)
                      /\ n \in Range(depot'[c].desc.msgs)
       /\ (pc = "pushfin" /\ res'.outcome = "abort") =>
            /\ p4statfile' = p4statfile /\ depot' = depot
            /\ p4stat' = p4stat /\ p4statdirty' = p4statdirty
       /\ (pc = "idle" /\ opts'.op = "p4submit" /\ res'.outcome = "abort") =>
            /\ p4statfile' = p4statfile
            /\ opts'.change # 0 =>
                  /\ depot' = depot
                  /\ \A n \in NodeIds : p4stat'[n] # SUBMITTED
      ]_vars

C4Witness ==
    /\ pc = "done" /\ opts.op = "push" /\ opts.submit
    /\ res.outcome = "abort"
    /\ nodes # <<>>
    /\ depot[use].status = "pending"
    /\ \A n \in Range(nodes) : p4statfile[n] = None

\* C5: when pull commits the revision of a changelist whose marker decodes to
\* revisions of the local repository, the last revision of the marker is a
\* parent of the new revision; without a marker (or with one that names
\* unknown revisions) its only parent is the anchor.
C5Claim ==
    [][(pc = "pull" /\ changes # <<>> /\ Len(repo') = Len(repo) + 1) =>
          LET m == depot[Head(changes)].desc.hgid
              new == repo'[Len(repo')]
          IN  IF m # <<>> /\ \A i \in DOMAIN m : m[i] \in 1..Len(repo)
              THEN Last(m) \in {new.p1, new.p2}
              ELSE new.p1 = p4rev /\ new.p2 = nullid
      ]_vars

\* Revision cand[i] is tracked in the store file.
Tracked(i) == p4statfile[cand[i]] # None

\* C6: in a push without force the range that remains is the candidate range
\* without its longest run of tracked revisions at the start and its longest
\* run of tracked revisions at the end, in the same order; when something was
\* trimmed and something remains, the two endpoints are the first remaining
\* revision's first parent and the last remaining revision.
C6Theorem ==
    (/\ opts.op = "push" /\ ~opts.force
     /\ \/ pc \in {"push", "pushfin"}
        \/ pc = "done" /\ res.outcome \in {"abort", "nochanges"})
        => /\ \E i \in 0..Len(cand) : \E j \in i..Len(cand) :
                /\ nodes = SubSeq(cand, i + 1, j)
                /\ \A k \in 1..i : Tracked(k)
                /\ \A k \in (j + 1)..Len(cand) : Tracked(k)
                /\ i < j => ~Tracked(i + 1) /\ ~Tracked(j)
           /\ (nodes # cand /\ nodes # <<>>) =>
                /\ ctx1 = repo[nodes[1]].p1
                /\ ctx2 = Last(nodes)

C6Witness ==
    /\ pc = "push" /\ opts.op = "push" /\ ~opts.force
    /\ Len(cand) = 3
    /\ p4statfile[cand[1]] \in 1..MaxChange
    /\ p4statfile[cand[3]] \in 1..MaxChange
    /\ nodes = <<cand[2]>>
    /\ ctx1 = cand[1] /\ ctx2 = cand[2]

\* C7: a push without force repeated right after a push of the same range
\* that completed finds nothing to export: it ends with "no changes", its
\* range is empty, and it changes neither the depot (no changelist is
\* allocated) nor the store.
C7Theorem ==
    [][(/\ pc = "done" /\ opts.op = "push"
        /\ res.outcome \in {"pending", "submitted"}
        /\ opts'.op = "push")
          => /\ pc' = "done" /\ res'.outcome = "nochanges"
             /\ nodes' = <<>> /\ use' = 0
             /\ depot' = depot
             /\ p4statfile' = p4statfile
      ]_vars

C7Witness ==
    /\ pc = "done" /\ opts.op = "push" /\ ~opts.force
    /\ res.outcome = "nochanges"
    /\ Len(cand) > 1 /\ nodes = <<>>
    /\ \E n \in Range(cand) : p4statfile[n] = SUBMITTED
    /\ \E n \in Range(cand) : p4statfile[n] \in 1..MaxChange

\* Revision n is in the store file, or a child of n carries extra['p4'].
Exported(n) ==
    \/ p4statfile[n] # None
    \/ \E k \in 1..Len(repo) : n \in {repo[k].p1, repo[k].p2} /\ repo[k].p4 # 0

\* C8: a push without force whose trimmed range still holds a revision that
\* is tracked or has a child with p4 metadata aborts naming the first such
\* revision, before any changelist is created or edited and with the store
\* unchanged.
C8Theorem ==
    [][(/\ pc \in {"idle", "done"} /\ opts'.op = "push" /\ ~opts'.force
        /\ \E i \in DOMAIN nodes' : Exported(nodes'[i]))
          => /\ pc' = "done" /\ res'.outcome = "abort"
             /\ \E i \in DOMAIN nodes' :
                   /\ res'.node = nodes'[i]
                   /\ Exported(nodes'[i])
                   /\ \A j \in 1..(i - 1) : ~Exported(nodes'[j])
             /\ use' = 0
             /\ depot' = depot
             /\ p4statfile' = p4statfile /\ ~p4statdirty'
      ]_vars

C8Witness ==
    /\ pc = "done" /\ opts.op = "push" /\ ~opts.force
    /\ res.outcome = "abort" /\ res.node # 0
    /\ p4statfile[res.node] = None
    /\ \E k \in 1..Len(repo) : repo[k].p2 = res.node /\ repo[k].p4 # 0

\* C9: when a pull or clone has failed after its import loop committed
\* revisions, running pull again starts the import loop on exactly the
\* submitted changelists above the last one committed, also when the failed
\* run was a clone with --startrev that committed its first revision only.
C9Claim ==
    [][(/\ pc = "done" /\ res.outcome = "failed" /\ opts'.op = "pull"
        /\ \E i \in 1..Len(repo) : repo[i].cl # 0)
          => LET done == {repo[i].cl : i \in 1..Len(repo)}
                 last == CHOOSE c \in done : \A d \in done : d <= c
             IN  /\ pc' = "pull"
                 /\ changes' = SortedSeq({c \in Submitted(depot) : c > last})
      ]_vars

\* C10: a clone with --startrev s commits one first revision without p4
\* metadata holding the depot's files at s, then one revision with metadata
\* per submitted changelist above s in ascending order (followed by nothing
\* but the 'p4 tags' revision); with fewer than two submitted changelists
\* from s on it fails and commits nothing.
C10Theorem ==
    (pc = "done" /\ opts.op = "clone" /\ opts.startrev > 0) =>
        LET s == opts.startrev
            from == {c \in Submitted(depot) : c >= s}
            later == SortedSeq(from \ {s})
            n == Len(later)
        IN  IF Cardinality(from) < 2
            THEN res.outcome = "abort" /\ repo = <<>>
            ELSE s \in from =>
                  /\ res.outcome # "abort"
                  /\ res.outcome = "ok" =>
                        /\ Len(repo) \in {n + 1, n + 2}
                        /\ repo[1].p4 = 0 /\ ~repo[1].tagdesc
                        /\ repo[1].p1 = nullid
                        /\ repo[1].man["a"] = ContentAt(depot, s)
                        /\ \A i \in 1..n :
                              /\ repo[i + 1].p4 = later[i]
                              /\ repo[i + 1].p1 = i
                        /\ Len(repo) = n + 2 =>
                              repo[n + 2].tagdesc /\ repo[n + 2].p4 = 0

C10Witness ==
    /\ pc = "done" /\ opts.op = "clone" /\ opts.startrev = 5
    /\ res.outcome = "ok"
    /\ Submitted(depot) = 1..10
    /\ repo[1].p4 = 0
    /\ {repo[i].p4 : i \in 2..Len(repo)} \ {0} = 6..10

\* A call of where on paths of which none was in the cache has come to its
\* end: it returned, or it raised on the number of replies.
WhereCounted ==
    /\ wpc = "done" /\ wres \in {"ok", "incomplete", "oversized"}
    /\ Len(flist) = Cardinality(wfiles)

\* What where gives back on N paths: when it returns, at most N results, none
\* of a path the depot calls unmapped or the cache records as unmapped; and it
\* returns only when the replies counted are N.
WhereResultOk ==
    /\ wres = "ok" =>
          /\ Len(result) <= Cardinality(wfiles)
          /\ \A k \in 1..Len(result) :
                /\ view[result[k].df] # "unmap"
                /\ wherecache[result[k].df].state = "mapped"
    /\ (wres = "ok") = (wn = Cardinality(wfiles))

\* C11 as stated: resolving N uncached paths with threshold T runs
\* ceil(N/T) 'p4 where' commands, and one command without a path if N = 0;
\* at most N results come back, unmapped paths left out, and the call aborts
\* whenever the replies counted differ from N.
C11Claim ==
    WhereCounted =>
        /\ queries = (IF wfiles = {} THEN 1
                      ELSE (Cardinality(wfiles) + MAXARGS - 1) \div MAXARGS)
        /\ WhereResultOk

\* C11 amended: resolving N uncached paths with threshold T runs ceil(N/T)
\* 'p4 where' commands, none at all if N = 0; at most N results come back,
\* unmapped paths left out, and the call aborts whenever the replies counted
\* differ from N.
C11Theorem ==
    WhereCounted =>
        /\ queries = (Cardinality(wfiles) + MAXARGS - 1) \div MAXARGS
        /\ WhereResultOk

\* Three uncached paths resolved two at a time in two commands, one of them
\* unmapped and left out; and the empty call that runs no command.
C11Witness ==
    /\ WhereCounted /\ wres = "ok"
    /\ Cardinality(wfiles) = 3 /\ MAXARGS = 2 /\ queries = 2
    /\ Len(result) = 2
    /\ \E df \in wfiles : wherecache[df].state = "unmapped"

\* The paths of the last call that the view leaves out or maps into '.hg'.
NotInWorkspace(df) == view[df] \in {"notinview", "unmap", "hgfile", "relhg"}

\* After a call of where that returned, the paths it left out are in the
\* cache as None and not in its result.
UnmappedRecorded ==
    (wpc = "done" /\ wres = "ok") =>
        \A df \in wfiles :
            NotInWorkspace(df) =>
                /\ wherecache[df] = CachedNone
                /\ \A k \in 1..Len(result) : result[k].df # df

\* A call of where on a subset of the paths of the call that returned before
\* it runs no command and gives the same local paths.
SubsetFromCache ==
    (wpc = "done" /\ wres = "ok" /\ wpc' # "idle" /\ wfiles' \subseteq wfiles) =>
        /\ wpc' = "done" /\ wres' = "ok" /\ queries' = 0
        /\ Range(result') = {e \in Range(result) : e.df \in wfiles'}

\* C18: once a set P of depot paths was resolved, resolving a subset of P
\* runs no 'p4 where' and returns the same local paths; the paths of P that
\* are outside the client view or map into '.hg' are cached as unmapped and
\* left out of the result.
C18Claim == []UnmappedRecorded /\ [][SubsetFromCache]_vars

\* What one step does to the store of command s.
StoreStepOk(s) ==
    LET closing == cstate[s] = "open" /\ cstate'[s] = "closed"
        before == Load(clients[s], ReadText(p4statlines))
    IN  /\ written'[s] <= 1
        /\ written'[s] # written[s] /\ written'[s] # 0 => closing
        /\ closing => ((written'[s] = 1) = altered[s])
        /\ (cstate[s] = "open" /\ cstate'[s] = "open"
               /\ clients'[s].stat = before.stat) =>
              clients'[s].dirty = clients[s].dirty

\* C12: .hg/p4stat is written only by close(), at most once by a command, and
\* exactly when a setpending of the command changed a state; a setpending
\* that gives a node the state it has (None for a node not in the store
\* included) changes neither p4stat nor p4statdirty.
C12Theorem ==
    [][/\ \A s \in Sessions : StoreStepOk(s)
       /\ p4statlines' # p4statlines =>
             \E s \in Sessions :
                 cstate[s] = "open" /\ cstate'[s] = "closed" /\ altered[s]]_vars

\* One command changed a state and wrote the file at its close; another read
\* the store, set a state that was there already, and closed without writing.
C12Witness ==
    \E s, t \in Sessions :
        /\ cstate[s] = "closed" /\ altered[s] /\ written[s] = 1
        /\ cstate[t] = "closed" /\ clients[t].loaded /\ ~altered[t]
        /\ written[t] = 0 /\ clients[t].stat[1] = SUBMITTED
        /\ p4statlines = File(<<Line(1, TRUE, "submitted")>>)

\* A line _readp4stat cannot take apart, and a file it cannot read through.
Malformed(l) == ~l.space \/ (~StartsWithS(l.text) /\ ~IsInt(l.text))
Unreadable(file) ==
    ~file.exists \/ \E k \in 1..Len(file.lines) : Malformed(file.lines[k])

\* C13: when .hg/p4stat is missing or cannot be read, a malformed line after
\* valid ones included, the command that loads it goes on with an empty
\* p4stat and p4statdirty clear.
C13Claim ==
    [][\A s \in Sessions :
          (/\ cstate[s] = "open" /\ ~clients[s].loaded /\ clients'[s].loaded
           /\ ~altered'[s] /\ Unreadable(p4statlines)) =>
              clients'[s].stat = EmptyStat /\ ~clients'[s].dirty]_vars

\* mod, add and rem of the push are empty: the range is empty, or the two
\* contexts differ in '.hg*' files only.
NoFilesToPush ==
    \/ nodes = <<>>
    \/ \A f \in Paths :
          StartsWithHg(f) \/ ManifestOf(repo, ctx1)[f] = ManifestOf(repo, ctx2)[f]

\* C14: a push that passes the validation and finds mod, add and rem empty
\* (the range empty after trimming, or '.hg*' files changed only) says "no
\* changes found" and ends there: no changelist is made or used, the depot
\* and .hg/p4stat stay as they are.
C14Theorem ==
    /\ [](res.outcome = "nochanges" =>
             pc = "done" /\ opts.op = "push" /\ use = 0 /\ ~p4statdirty)
    /\ [][(/\ pc \in {"idle", "done"} /\ pc' # "idle" /\ opts'.op = "push"
           /\ res'.outcome # "abort" /\ NoFilesToPush') =>
              /\ pc' = "done" /\ res'.outcome = "nochanges"
              /\ depot' = depot /\ p4statfile' = p4statfile]_vars

\* A push of revisions that change .hgtags only has said "no changes found".
C14Witness ==
    /\ pc = "done" /\ res.outcome = "nochanges" /\ nodes # <<>>
    /\ ManifestOf(repo, ctx1)[".hgtags"] # ManifestOf(repo, ctx2)[".hgtags"]
    /\ depot = NativeDepot(1, 0)

\* The pending changelists of the client that carry the description d.
OpenWithDesc(dp, d) ==
    {c \in 1..Len(dp) : dp[c].status = "pending" /\ dp[c].desc = d}

\* C19: a push whose description is that of a pending changelist of the
\* client works in that changelist and has no new number handed out; so,
\* however often a push is repeated, no two pending changelists carry the
\* same description.
C19Theorem ==
    /\ [](\A c \in 1..Len(depot) :
             depot[c].status = "pending" =>
                 OpenWithDesc(depot, depot[c].desc) = {c})
    /\ [][(pc = "push" /\ OpenWithDesc(depot, desc) # {}) =>
              /\ Len(depot') = Len(depot)
              /\ OpenWithDesc(depot', desc) = OpenWithDesc(depot, desc)
              /\ use' # 0 => use' \in OpenWithDesc(depot, desc)]_vars

\* A push works in a pending changelist made by an earlier push of the same
\* range, a later number having been handed out in between.
C19Witness ==
    /\ pc = "pushfin" /\ use # 0 /\ use < Len(depot)
    /\ OpenWithDesc(depot, desc) = {use}

\* The store as the running command sees it.
InMemory == IF p4statloaded THEN p4stat ELSE p4statfile

\* The changelist the import loop is at has no revision yet.
NotCommitted(rp, c) == \A i \in 1..Len(rp) : rp[i].cl # c

\* C20: pull clears the store's entries of a changelist's range only once
\* the revision of the changelist is committed: a pass of the loop that
\* commits nothing leaves every entry as it was in memory, and the close
\* after it writes the range's entries as they were.
C20Claim ==
    /\ [][(pc = "pull" /\ changes # <<>> /\ Len(repo') = Len(repo)) =>
              InMemory' = InMemory]_vars
    /\ [][(/\ pc = "pullfin" /\ pc' = "done" /\ changes # <<>>
           /\ NotCommitted(repo, Head(changes))) =>
              \A n \in Range(ParseNodes(repo, depot[Head(changes)].desc)) :
                  p4statfile'[n] = p4statfile[n]]_vars

\* The description d has no {{mercurial ...}} tag, or the tag names a
\* revision that is not in the repository.
NoUsableTag(rp, d) ==
    FirstMarker(d) = <<>>
        \/ \E k \in 1..Len(FirstMarker(d)) : FirstMarker(d)[k] \notin 1..Len(rp)

\* C16: a changelist whose description has no tag, or a tag that names a
\* revision unknown to the repository, is imported all the same: the new
\* revision has the anchor as its only parent and the changelist number in
\* extra['p4'], and no entry of the store changes.
C16Theorem ==
    [][(/\ pc = "pull" /\ changes # <<>> /\ Len(repo') = Len(repo) + 1
        /\ NoUsableTag(repo, depot[Head(changes)].desc)) =>
           /\ repo'[Len(repo')].p1 = p4rev
           /\ repo'[Len(repo')].p2 = nullid
           /\ repo'[Len(repo')].p4 = Head(changes)
           /\ InMemory' = InMemory]_vars

\* A changelist pushed from another repository was imported while the store
\* held entries; the pull is still running.
C16Witness ==
    /\ pc = "pull"
    /\ \E i \in 1..Len(repo) :
          /\ repo[i].p4 # 0 /\ depot[repo[i].p4].desc = ForeignDesc
          /\ repo[i].p1 # nullid /\ repo[i].p2 = nullid
    /\ \E n \in NodeIds : InMemory[n] # None

\* The 'p4 tags' revisions of the repository.
TagRevs(rp) == {i \in 1..Len(rp) : rp[i].tagdesc}

\* C17: a 'p4 tags' revision has no extra['p4'] and latest() never returns
\* it; latest(tags=True) returns it only as a child of the most recent
\* revision with extra['p4'], with that revision's changelist number; every
\* 'p4 tags' revision pull commits is found by latest(tags=True), so the
\* next pull builds on it and each revision's parent is the one before it.
C17Theorem ==
    /\ [](\A i \in TagRevs(repo) :
             /\ repo[i].p4 = 0
             /\ Latest(repo, FALSE).node # i
             /\ Latest(repo, TRUE).node = i =>
                   /\ repo[i].p1 = Latest(repo, FALSE).node
                   /\ Latest(repo, TRUE).p4 = repo[repo[i].p1].p4)
    /\ [](\A i \in 2..Len(repo) : repo[i].p1 = i - 1 /\ repo[i].p2 = nullid)
    /\ [][(Len(repo') = Len(repo) + 1 /\ repo'[Len(repo')].tagdesc) =>
              Latest(repo', TRUE).node = Len(repo')]_vars

\* A pull went on from a 'p4 tags' revision: the next changelist's revision
\* is its child.
C17Witness ==
    \E i \in TagRevs(repo) :
        /\ i < Len(repo)
        /\ repo[i + 1].p1 = i /\ repo[i + 1].p4 # 0
        /\ repo[i].p1 = i - 1 /\ repo[i - 1].p4 # 0

\* The tag pushcommon appends for the range ns.
RangeTag(ns) == IF Len(ns) > 1 THEN <<ns[1], Last(ns)>> ELSE <<Last(ns)>>

\* C15: the description a push builds ends with one {{mercurial ...}} tag and
\* holds no other, whatever the messages of its revisions; the tag holds the
\* first and the last revision of the range (one revision for a range of
\* one), and what the import reads from the description are those two.
C15Claim ==
    pc \in {"push", "pushfin"} =>
        /\ Markers(desc) = <<RangeTag(nodes)>>
        /\ FirstMarker(desc)[1] = nodes[1]
        /\ Last(FirstMarker(desc)) = Last(nodes)

\* C22: the force flag only disables the validation: after the trim step of
\* any push, forced or not, the range that remains is empty or its first and
\* its last revision are not in the store.
C22Claim ==
    [][(/\ pc \in {"idle", "done"} /\ opts'.op = "push" /\ nodes' # <<>>)
          => /\ p4statfile[nodes'[1]] = None
             /\ p4statfile[Last(nodes')] = None
      ]_vars

\* C24: when 'hg p4submit c' has submitted changelist c, no revision is left
\* Pending(c) in the store, whatever the shape of the range that was pushed.
C24Claim ==
    [][(/\ pc = "idle" /\ opts'.op = "p4submit" /\ opts'.change # 0
        /\ res'.outcome = "ok")
          => \A n \in NodeIds : p4statfile'[n] # opts'.change
      ]_vars

\* C25: whenever a pull ends, by success or by a failure in any step, the
\* store has been closed: what was changed in memory is in the file and
\* nothing is left unwritten.
C25Claim ==
    [][(pc \in {"pull", "pullfin"} /\ pc' = "done")
          => /\ p4statfile' = (IF p4statdirty THEN p4stat ELSE p4statfile)
             /\ ~p4statdirty'
      ]_vars

\* C26: 'hg p4revert c' removes from the store exactly the entries that are
\* Pending(c) and leaves every other entry as it was, whether or not the
\* depot can still describe changelist c.
C26Theorem ==
    [][(pc = "idle" /\ opts'.op = "p4revert" /\ opts'.change # 0)
          => \A n \in NodeIds :
                p4statfile'[n] = IF p4statfile[n] = opts'.change
                                 THEN None ELSE p4statfile[n]
      ]_vars

C26Witness ==
    /\ pc = "done" /\ opts.op = "p4revert" /\ opts.change \in 1..Len(depot)
    /\ depot[opts.change].status = "deleted"
    /\ res.outcome = "ok"
    /\ \E n \in Range(depot[opts.change].desc.msgs) : p4statfile[n] = None
    /\ \E n \in NodeIds : p4statfile[n] # None

\* The text a store entry is written as: "submitted" or the decimal number.
StatusText(state) == IF state = SUBMITTED THEN "submitted" ELSE Str(state)

\* C27: the file a close() writes holds one line '<node> <status>' for each
\* tracked revision of the closing command's mapping and no other line, and
\* a command that loads that file gets the same mapping.
C27Theorem ==
    [][\A s \in Sessions :
          written'[s] = written[s] + 1 =>
              LET st == clients[s].stat
                  ls == p4statlines'.lines
              IN  /\ p4statlines'.exists
                  /\ ReadText(p4statlines') = st
                  /\ Len(ls) = Cardinality({n \in NodeIds : st[n] # None})
                  /\ \A i \in DOMAIN ls :
                        /\ ls[i].space
                        /\ st[ls[i].node] # None
                        /\ ls[i].text = StatusText(st[ls[i].node])
                  /\ \A i, j \in DOMAIN ls : ls[i].node = ls[j].node => i = j
      ]_vars

\* One command wrote a Submitted and a Pending entry at its close, and a
\* later command has loaded the same mapping from the file.
C27Witness ==
    \E s, t \in Sessions :
        /\ s # t
        /\ cstate[s] = "closed" /\ written[s] = 1
        /\ cstate[t] = "open" /\ clients[t].loaded /\ ~altered[t]
        /\ clients[t].stat = clients[s].stat
        /\ \E n \in StoreNodes : clients[t].stat[n] = SUBMITTED
        /\ \E n \in StoreNodes : clients[t].stat[n] \in 1..MaxPending
        /\ p4statlines = WriteText(clients[s].stat)

\* The entries command s has changed since it loaded the store.
Changed(s) == {n \in NodeIds : racers[s].stat[n] # rbase[s][n]}

\* C30: when two commands have loaded the same persisted store, changed
\* different entries and closed, the file holds the mapping of the command
\* that closed last, without the changes of the other.
C30Claim ==
    \A s, t \in Sessions :
        (/\ s # t
         /\ rpc[s] = "closed" /\ rpc[t] = "closed" /\ rlast = t
         /\ racers[s].loaded /\ racers[t].loaded
         /\ rbase[s] = rbase[t]
         /\ Changed(s) # {} /\ Changed(t) # {}
         /\ Changed(s) \cap Changed(t) = {})
            => /\ ReadText(racefile) = racers[t].stat
               /\ \A n \in Changed(s) : ReadText(racefile)[n] = rbase[s][n]

\* The changelists, not deleted, whose description holds the message of n.
RangesOf(n) ==
    {c \in 1..Len(depot) : depot[c].status # "deleted" /\ n \in Range(depot[c].desc.msgs)}

\* Changelist c was exported from more than one revision, is submitted and
\* has been imported by a pull.
RoundTrip(c) ==
    /\ depot[c].status = "submitted"
    /\ Len(depot[c].desc.msgs) > 1
    /\ \E k \in 1..Len(repo) : repo[k].p4 = c

\* C21: with pushes without force, submits and pulls only, no revision is in
\* the range of two changelists of the depot, and a push of one revision of
\* a range that was submitted and imported aborts or finds no changes.
C21Claim ==
    /\ [](\A n \in 1..Len(repo) : Cardinality(RangesOf(n)) <= 1)
    /\ [][(/\ pc \in {"idle", "done"} /\ opts'.op = "push" /\ Len(opts'.rev) = 1
           /\ \E c \in 1..Len(depot) :
                 RoundTrip(c) /\ opts'.rev[1] \in Range(depot[c].desc.msgs))
             => pc' = "done" /\ res'.outcome \in {"abort", "nochanges"}
         ]_vars

\* The list of changes a pull starts its loop with: submitted changelists
\* above the anchor's changelist, in ascending order.
AboveAnchor(chs, id) ==
    /\ \A i \in DOMAIN chs : depot[chs[i]].status = "submitted" /\ chs[i] > id
    /\ \A i, j \in DOMAIN chs : i < j => chs[i] < chs[j]

\* C23: a pull starts its loop with the submitted changelists above the
\* anchor's changelist in ascending order and commits the first of those
\* left at each pass; whatever pulls ran before, failed ones included, no
\* changelist is imported as two revisions and the changelists of the
\* revisions with extra['p4'] increase in commit order.
C23Theorem ==
    /\ [](\A i, j \in 1..Len(repo) :
             /\ (i < j /\ repo[i].p4 # 0 /\ repo[j].p4 # 0) => repo[i].p4 < repo[j].p4
             /\ (repo[i].cl # 0 /\ repo[i].cl = repo[j].cl) => i = j)
    /\ [][/\ (pc # "pull" /\ pc' = "pull") =>
                /\ AboveAnchor(changes', p4id')
                /\ p4id' = Latest(repo, FALSE).p4
          /\ (pc = "pull" /\ changes # <<>> /\ Len(repo') = Len(repo) + 1) =>
                /\ repo'[Len(repo')].cl = Head(changes)
                /\ AboveAnchor(changes, p4id)
         ]_vars

\* A pull that began on an anchor has ended well in a repository of at least
\* three imported revisions.
C23Witness ==
    /\ pc = "done" /\ opts.op = "pull" /\ res.outcome = "ok"
    /\ p4id # 0
    /\ Cardinality({k \in 1..Len(repo) : repo[k].p4 > p4id}) >= 2
    /\ \E c \in 1..Len(depot) : depot[c].status = "deleted"

\* The positions of p4log where path f is opened in the changelist.
Opens(f) ==
    {i \in DOMAIN p4log :
        p4log[i].cmd \in {"edit", "add", "integrate", "delete"}
        /\ f \in p4log[i].files}

\* The paths written in the workspace.
Written == {f \in OpenPaths : \E i \in DOMAIN p4log :
                p4log[i].cmd = "write" /\ f \in p4log[i].files}

\* Path f of ctx2 is a copy whose data is the data of its source.
SameCopy(f) ==
    wctx.cp[f] # NoPath /\ wctx.m2[f] = wctx.m1[wctx.cp[f]]

\* C28: when a push has opened its files, every path that differs between
\* the two contexts and is outside '.hg*' is opened by exactly one command:
\* edit if modified, delete if removed, and if added integrate from its copy
\* source when its data equals the source's, else add; the files written are
\* the modified and the plainly added ones.
C28Theorem ==
    opc = "opened" =>
        LET st == OpenStatus(wctx.m1, wctx.m2)
            plain == {f \in st.add : ~StartsWithHg(f) /\ ~SameCopy(f)}
        IN  /\ \A f \in st.mod \cup st.add \cup st.rem :
                  ~StartsWithHg(f) =>
                      /\ Cardinality(Opens(f)) = 1
                      /\ \A i \in Opens(f) :
                            /\ f \in st.mod => p4log[i].cmd = "edit"
                            /\ f \in st.rem => p4log[i].cmd = "delete"
                            /\ f \in st.add /\ SameCopy(f) =>
                                  /\ p4log[i].cmd = "integrate"
                                  /\ p4log[i].src = wctx.cp[f]
                            /\ f \in st.add /\ ~SameCopy(f) =>
                                  p4log[i].cmd = "add"
            /\ Written = {f \in st.mod : ~StartsWithHg(f)} \cup plain

C28Witness ==
    /\ opc = "opened"
    /\ \E i \in DOMAIN p4log : p4log[i].cmd = "integrate"
    /\ \E f \in OpenPaths :
          /\ wctx.cp[f] # NoPath /\ ~SameCopy(f)
          /\ \E i \in Opens(f) : p4log[i].cmd = "add"

\* C29: no p4 command of a push (sync -f, revert, edit, add, integrate as
\* the destination, delete) names a path that starts with '.hg', and no such
\* path is written in the workspace.
C29Theorem ==
    \A i \in DOMAIN p4log : \A f \in p4log[i].files : ~StartsWithHg(f)

C29Witness ==
    /\ opc = "opened"
    /\ \E f \in OpenPaths : StartsWithHg(f) /\ wctx.m1[f] # wctx.m2[f]
    /\ \E i \in DOMAIN p4log : p4log[i].cmd = "revert"
    /\ \E i \in DOMAIN p4log : p4log[i].cmd = "integrate" /\ StartsWithHg(p4log[i].src)

====
